---------------------------- MODULE Spec2Model ----------------------------
(***************************************************************************)
(* CharmTools: the intermediate model (XFile), the feeder merge, the DPV   *)
(* validation and generation, and the session store.                       *)
(*                                                                         *)
(* Millimetre and degree fields are float64 in the source; here they are   *)
(* integers in hundredths (0.5 mm is 50), the resolution of the "%.2f"     *)
(* output format.                                                          *)
(***************************************************************************)
EXTENDS Integers, Sequences, FiniteSets, TLC

VARIABLES
    xf,        \* the XFile of the session served by the sequential handlers
    last,      \* the last operation applied to xf: its inputs and its results
    nOps,      \* the number of requests served so far
    heap,      \* the XFile objects in memory, by address
    sessions,  \* FileStore.sessions: session id -> sessionData
    disk,      \* the session files of baseDir: session id -> stored XFile
    req,       \* the request each client has in flight, and where it stands
    now,       \* time.Now(), in units of the clock
    stats      \* FileStore.stats.TotalUsers

storeVars == <<heap, sessions, disk, req, now, stats>>

vars == <<xf, last, nOps, heap, sessions, disk, req, now, stats>>

(***************************************************************************)
(* Bounds of the model.                                                    *)
(***************************************************************************)
MaxStations == 3     \* longest Stations list a merge may produce
MaxOps      == 3     \* most requests served in a session
MaxPOSLines == 3     \* most lines of an uploaded placement file
MaxStackLines == 3   \* most lines of an uploaded feeder file

Labels    == {"", "A", "B"}          \* component values / station notes
FileNames == {"", "f1.stack"}

Range(s) == {s[i] : i \in 1..Len(s)}

SeqsOfLen(S, lens) == UNION {[1..k -> S] : k \in lens}

(***************************************************************************)
(* xfile.go                                                                *)
(***************************************************************************)
\* XStation with the values parseStationRow starts from
DefaultStation ==
    [No |-> 0, ID |-> 1, DeltX |-> 0, DeltY |-> 0, FeedRates |-> 4, Note |-> "",
     Height |-> 50, Speed |-> 0, Status |-> 4, NThreshold |-> 110,
     Select |-> FALSE, PHead |-> 1, DNP |-> FALSE]

NewXFile ==
    [GlobalOffset |-> [X |-> 0, Y |-> 0],
     POSRows      |-> <<>>,
     Components   |-> <<>>,
     Stations     |-> <<>>,
     PanelArray   |-> <<[No |-> 0, ID |-> 1, IntervalX |-> 0, IntervalY |-> 0,
                         NumX |-> 1, NumY |-> 1]>>,
     PanelCoord   |-> <<[No |-> 0, ID |-> 1, DeltX |-> 0, DeltY |-> 0]>>,
     OriginalPOS  |-> "",
     StackFiles   |-> <<>>]

(***************************************************************************)
(* pos.go: ConvertPOSToXFile                                               *)
(***************************************************************************)
\* uniqueVals: the non-empty values of the rows, in first-seen order
RECURSIVE UniqueVals(_, _)
UniqueVals(rows, k) ==
    IF k = 0 THEN <<>>
    ELSE LET prev == UniqueVals(rows, k - 1)
             v    == rows[k].Val
         IN  IF v # "" /\ v \notin Range(prev) THEN Append(prev, v) ELSE prev

\* valToStationID[val]
ValToStationID(uniq, val) == CHOOSE i \in 1..Len(uniq) : uniq[i] = val

POSNote(row) ==
    IF row.Ref # "" /\ row.Package # "" THEN <<row.Ref, " - ", row.Package>>
    ELSE IF row.Ref # "" THEN <<row.Ref>>
    ELSE IF row.Package # "" THEN <<row.Package>>
    ELSE <<>>

ConvertPOSToXFile(rows, filename) ==
    LET uniq == UniqueVals(rows, Len(rows))
    IN  [NewXFile EXCEPT
           !.OriginalPOS = filename,
           !.POSRows     = rows,
           !.Stations    =
               [idx \in 1..Len(uniq) |->
                   [No |-> idx - 1, ID |-> idx, DeltX |-> 0, DeltY |-> 0,
                    FeedRates |-> 4, Note |-> uniq[idx], Height |-> 50,
                    Speed |-> 0, Status |-> 4, NThreshold |-> 110,
                    Select |-> FALSE, PHead |-> 1, DNP |-> FALSE]],
           !.Components  =
               [idx \in 1..Len(rows) |->
                   [No |-> idx - 1, ID |-> idx, PHead |-> 1,
                    STNo |-> IF rows[idx].Val \in Range(uniq)
                             THEN ValToStationID(uniq, rows[idx].Val) ELSE 1,
                    DeltX |-> rows[idx].PosX, DeltY |-> rows[idx].PosY,
                    Angle |-> rows[idx].Rot, Height |-> 50, Skip |-> 4,
                    Speed |-> 0, Explain |-> rows[idx].Val,
                    Note |-> POSNote(rows[idx]), Delay |-> 0,
                    Select |-> FALSE, DNP |-> FALSE]]]

(***************************************************************************)
(* stack.go: the merge of parsed Station rows into an XFile                *)
(***************************************************************************)
\* the keys of a map built by "if s.Note != "" { m[s.Note] = ... }"
NoteKeys(stations) == {stations[i].Note : i \in 1..Len(stations)} \ {""}

\* noteToIdx: a later station with the same Note overwrites the entry
NoteToIdx(stations) ==
    [n \in NoteKeys(stations) |->
        CHOOSE i \in 1..Len(stations) :
            /\ stations[i].Note = n
            /\ \A j \in (i + 1)..Len(stations) : stations[j].Note # n]

\* mutant: the next id is taken from the length of the list
MaxIDFromLen(stations, k) == k

\* maxID := 0; for each station: if s.ID > maxID { maxID = s.ID }
RECURSIVE MaxID(_, _)
MaxID(stations, k) ==
    IF k = 0 THEN 0
    ELSE LET m == MaxID(stations, k - 1)
         IN  IF stations[k].ID > m THEN stations[k].ID ELSE m

\* mutant: the update does not restore the existing ID
MergeStationStepLosesID(acc, noteToIdx, incoming) ==
    IF incoming.Note \in DOMAIN noteToIdx
    THEN [stations |-> [acc.stations EXCEPT ![noteToIdx[incoming.Note]] = incoming],
          merged   |-> acc.merged + 1,
          added    |-> acc.added]
    ELSE [stations |-> Append(acc.stations,
                          [incoming EXCEPT
                              !.ID = MaxID(acc.stations, Len(acc.stations)) + 1,
                              !.No = Len(acc.stations)]),
          merged   |-> acc.merged,
          added    |-> acc.added]

\* mutant: an appended station keeps the ID of its row in the file
MergeStationStepKeepsFileID(acc, noteToIdx, incoming) ==
    IF incoming.Note \in DOMAIN noteToIdx
    THEN LET idx        == noteToIdx[incoming.Note]
             existingID == acc.stations[idx].ID
         IN  [stations |-> [acc.stations EXCEPT
                               ![idx] = [incoming EXCEPT !.ID = existingID]],
              merged   |-> acc.merged + 1,
              added    |-> acc.added]
    ELSE [stations |-> Append(acc.stations,
                          [incoming EXCEPT !.No = Len(acc.stations)]),
          merged   |-> acc.merged,
          added    |-> acc.added]

\* mutant: the update keeps the existing Status along with the ID
MergeStationStepKeepsStatus(acc, noteToIdx, incoming) ==
    IF incoming.Note \in DOMAIN noteToIdx
    THEN LET idx == noteToIdx[incoming.Note]
         IN  [stations |-> [acc.stations EXCEPT
                               ![idx] = [incoming EXCEPT
                                            !.ID = acc.stations[idx].ID,
                                            !.Status = acc.stations[idx].Status]],
              merged   |-> acc.merged + 1,
              added    |-> acc.added]
    ELSE [stations |-> Append(acc.stations,
                          [incoming EXCEPT
                              !.ID = MaxID(acc.stations, Len(acc.stations)) + 1,
                              !.No = Len(acc.stations)]),
          merged   |-> acc.merged,
          added    |-> acc.added]

\* one iteration of the loop of MergeStationsIntoXFile; acc is
\* [stations, merged, added], noteToIdx is the map built before the loop
MergeStationStep(acc, noteToIdx, incoming) ==
    IF incoming.Note \in DOMAIN noteToIdx
    THEN LET idx        == noteToIdx[incoming.Note]
             existingID == acc.stations[idx].ID
         IN  [stations |-> [acc.stations EXCEPT
                               ![idx] = [incoming EXCEPT !.ID = existingID]],
              merged   |-> acc.merged + 1,
              added    |-> acc.added]
    ELSE [stations |-> Append(acc.stations,
                          [incoming EXCEPT
                              !.ID = MaxID(acc.stations, Len(acc.stations)) + 1,
                              !.No = Len(acc.stations)]),
          merged   |-> acc.merged,
          added    |-> acc.added]

\* mutant: every incoming station is appended, matched or not
MergeStacksStepAppends(acc, noteToIdx, incoming) ==
    [stations |-> Append(acc.stations,
                     [incoming EXCEPT
                         !.ID = MaxID(acc.stations, Len(acc.stations)) + 1,
                         !.No = Len(acc.stations)]),
     merged   |-> acc.merged,
     added    |-> acc.added + 1]

\* mutant: the update does not restore the existing ID
MergeStacksStepLosesID(acc, noteToIdx, incoming) ==
    IF incoming.Note \in DOMAIN noteToIdx
    THEN LET idx        == noteToIdx[incoming.Note]
             existingNo == acc.stations[idx].No
         IN  [stations |-> [acc.stations EXCEPT
                               ![idx] = [incoming EXCEPT !.No = existingNo]],
              merged   |-> acc.merged + 1,
              added    |-> acc.added]
    ELSE [stations |-> Append(acc.stations,
                          [incoming EXCEPT
                              !.ID = MaxID(acc.stations, Len(acc.stations)) + 1,
                              !.No = Len(acc.stations)]),
          merged   |-> acc.merged,
          added    |-> acc.added + 1]

\* one iteration of the loop of MergeStacksFile: No is preserved too, and
\* appended stations are counted
MergeStacksStep(acc, noteToIdx, incoming) ==
    IF incoming.Note \in DOMAIN noteToIdx
    THEN LET idx        == noteToIdx[incoming.Note]
             existingID == acc.stations[idx].ID
             existingNo == acc.stations[idx].No
         IN  [stations |-> [acc.stations EXCEPT
                               ![idx] = [incoming EXCEPT !.ID = existingID,
                                                         !.No = existingNo]],
              merged   |-> acc.merged + 1,
              added    |-> acc.added]
    ELSE [stations |-> Append(acc.stations,
                          [incoming EXCEPT
                              !.ID = MaxID(acc.stations, Len(acc.stations)) + 1,
                              !.No = Len(acc.stations)]),
          merged   |-> acc.merged,
          added    |-> acc.added + 1]

\* the state of the loop of MergeStationsIntoXFile after k incoming stations
RECURSIVE MergeStationsLoop(_, _, _)
MergeStationsLoop(stations, incoming, k) ==
    IF k = 0 THEN [stations |-> stations, merged |-> 0, added |-> 0]
    ELSE MergeStationStep(MergeStationsLoop(stations, incoming, k - 1),
                          NoteToIdx(stations), incoming[k])

\* the state of the loop of MergeStacksFile after k incoming stations
RECURSIVE MergeStacksLoop(_, _, _)
MergeStacksLoop(stations, incoming, k) ==
    IF k = 0 THEN [stations |-> stations, merged |-> 0, added |-> 0]
    ELSE MergeStacksStep(MergeStacksLoop(stations, incoming, k - 1),
                         NoteToIdx(stations), incoming[k])

\* mutant: the references are not re-derived
rederiveNothing(m) == m

\* noteToID of rederiveComponentSTNo
NoteToID(stations) ==
    [n \in NoteKeys(stations) |-> stations[NoteToIdx(stations)[n]].ID]

rederiveComponentSTNo(m) ==
    LET noteToID == NoteToID(m.Stations)
    IN  [m EXCEPT !.Components =
            [i \in 1..Len(m.Components) |->
                IF m.Components[i].Explain \in DOMAIN noteToID
                THEN [m.Components[i] EXCEPT
                         !.STNo = noteToID[m.Components[i].Explain]]
                ELSE m.Components[i]]]

\* mutant: the file name is recorded at every merge
AddStackFileAlways(files, filename) ==
    IF filename # "" THEN Append(files, filename) ELSE files

\* "Add filename to loaded stacks list"
AddStackFile(files, filename) ==
    IF filename # "" /\ filename \notin Range(files)
    THEN Append(files, filename) ELSE files

\* MergeStationsIntoXFile up to its last statement: the XFile with the
\* stations merged and the file name recorded, before the re-derivation
MergeStationsBeforeRederive(m, stations, filename) ==
    [m EXCEPT
       !.Stations   = MergeStationsLoop(m.Stations, stations, Len(stations)).stations,
       !.StackFiles = AddStackFile(@, filename)]

\* MergeStationsIntoXFile: the XFile after the call and the returned count
MergeStationsIntoXFile(m, stations, filename) ==
    [xf     |-> rederiveComponentSTNo(
                   MergeStationsBeforeRederive(m, stations, filename)),
     merged |-> MergeStationsLoop(m.Stations, stations, Len(stations)).merged]

\* MergeStacksFile after a successful ParseStack: the XFile after the call and
\* the returned (merged, added)
MergeStacksFile(m, stations) ==
    LET r == MergeStacksLoop(m.Stations, stations, Len(stations))
    IN  [xf     |-> rederiveComponentSTNo([m EXCEPT !.Stations = r.stations]),
         merged |-> r.merged,
         added  |-> r.added]

(***************************************************************************)
(* stack.go: the Station rows of GenerateStack and GenerateStacksFile,     *)
(* before they are formatted.  The columns nPixSizeX, nPixSizeY,           *)
(* HeightTake, DelayTake, nPullStripSpeed and nVisualRadio are left out.   *)
(***************************************************************************)
StackRow(no, st) ==
    [No |-> no, ID |-> st.ID, PHead |-> st.PHead, DeltX |-> st.DeltX,
     DeltY |-> st.DeltY, FeedRates |-> st.FeedRates, Note |-> st.Note,
     Height |-> st.Height, Speed |-> st.Speed, Status |-> st.Status,
     NThreshold |-> st.NThreshold]

\* the indices of the stations that are not DNP, in order
NotDNP(stations) ==
    SelectSeq([i \in 1..Len(stations) |-> i], LAMBDA i : ~stations[i].DNP)

\* GenerateStack: "for i, s := range xf.Stations", the row carries i
GenerateStackRows(m) ==
    [k \in 1..Len(NotDNP(m.Stations)) |->
        StackRow(NotDNP(m.Stations)[k] - 1,
                 m.Stations[NotDNP(m.Stations)[k]])]

\* GenerateStacksFile: the row carries idx, which counts the rows written
GenerateStacksFileRows(m) ==
    [k \in 1..Len(NotDNP(m.Stations)) |->
        StackRow(k - 1, m.Stations[NotDNP(m.Stations)[k]])]

(***************************************************************************)
(* dpv.go: ValidateDPV.  A finding is its Type and Row (Field and Message  *)
(* are texts fixed by the Type and the row's values); findings without a   *)
(* Row have the zero value 0.                                              *)
(***************************************************************************)
Finding(type, row) == [Type |-> type, Row |-> row]

\* mutant: DNP rows are validated too
ActiveWithDNP(rows) == rows

\* "Filter out DNP items"
Active(rows) == SelectSeq(rows, LAMBDA r : ~r.DNP)

\* one finding per row for which Bad holds, in row order, with Row = index
RowFindings(rows, type, Bad(_)) ==
    LET idx == SelectSeq([i \in 1..Len(rows) |-> i], LAMBDA i : Bad(rows[i]))
    IN  [k \in 1..Len(idx) |-> Finding(type, idx[k] - 1)]

\* bit of weight b (a power of two) of the int v, two's complement
Bit(v, b) == IF v >= 0 THEN (v \div b) % 2 = 1 ELSE ((-v - 1) \div b) % 2 = 0

\* stationIDs after the first loop: the IDs of the active stations
StationIDs(act) == {act[j].ID : j \in 1..Len(act)}

\* stationStatusMap: a later active station with the same ID overwrites
StationStatusMap(act) ==
    [id \in StationIDs(act) |->
        act[CHOOSE j \in 1..Len(act) :
               /\ act[j].ID = id
               /\ \A l \in (j + 1)..Len(act) : act[l].ID # id].Status]

\* mutant: a reserved id is reported without clearing Valid
RECURSIVE RuleStationIDKeepsValid(_, _, _)
RuleStationIDKeepsValid(res, act, k) ==
    IF k = 0 THEN res
    ELSE LET r0 == RuleStationIDKeepsValid(res, act, k - 1)
             r1 == IF act[k].ID \in {act[j].ID : j \in 1..(k - 1)}
                   THEN [r0 EXCEPT
                           !.Errors = Append(@, Finding("duplicate_station_id", k - 1)),
                           !.Valid = FALSE]
                   ELSE r0
         IN  IF act[k].ID >= 100
             THEN [r1 EXCEPT
                     !.Errors = Append(@, Finding("reserved_station_id", k - 1))]
             ELSE r1

\* mutant: the id 100 is not reserved
RECURSIVE RuleStationIDAbove100(_, _, _)
RuleStationIDAbove100(res, act, k) ==
    IF k = 0 THEN res
    ELSE LET r0 == RuleStationIDAbove100(res, act, k - 1)
             id == act[k].ID
             r1 == IF id \in {act[j].ID : j \in 1..(k - 1)}
                   THEN [r0 EXCEPT
                           !.Errors = Append(@, Finding("duplicate_station_id", k - 1)),
                           !.Valid = FALSE]
                   ELSE r0
             r2 == IF id > 100
                   THEN [r1 EXCEPT
                           !.Errors = Append(@, Finding("reserved_station_id", k - 1)),
                           !.Valid = FALSE]
                   ELSE r1
         IN  IF (id >= 30 /\ id <= 35) \/ (id >= 65 /\ id <= 70)
             THEN [r2 EXCEPT
                     !.Warnings = Append(@, Finding("undefined_station_id", k - 1))]
             ELSE r2

\* lines 709-743: duplicate, reserved and undefined station IDs, station by
\* station; the result after the first k active stations
RECURSIVE RuleStationID(_, _, _)
RuleStationID(res, act, k) ==
    IF k = 0 THEN res
    ELSE LET r0 == RuleStationID(res, act, k - 1)
             id == act[k].ID
             r1 == IF id \in {act[j].ID : j \in 1..(k - 1)}
                   THEN [r0 EXCEPT
                           !.Errors = Append(@, Finding("duplicate_station_id", k - 1)),
                           !.Valid = FALSE]
                   ELSE r0
             r2 == IF id >= 100
                   THEN [r1 EXCEPT
                           !.Errors = Append(@, Finding("reserved_station_id", k - 1)),
                           !.Valid = FALSE]
                   ELSE r1
         IN  IF (id >= 30 /\ id <= 35) \/ (id >= 65 /\ id <= 70)
             THEN [r2 EXCEPT
                     !.Warnings = Append(@, Finding("undefined_station_id", k - 1))]
             ELSE r2

RuleStationNo(res, act) ==
    [res EXCEPT !.Warnings = @ \o
        [k \in 1..Len(SelectSeq([i \in 1..Len(act) |-> i],
                                LAMBDA i : act[i].No # i - 1)) |->
            Finding("station_no_sequence",
                    SelectSeq([i \in 1..Len(act) |-> i],
                              LAMBDA i : act[i].No # i - 1)[k] - 1)]]

RuleStationStatus(res, act) ==
    LET f == RowFindings(act, "invalid_station_status",
                         LAMBDA st : st.Status < 0 \/ st.Status > 15)
    IN  [res EXCEPT !.Errors = @ \o f, !.Valid = IF f = <<>> THEN @ ELSE FALSE]

RuleStationFeedRates(res, act) ==
    [res EXCEPT !.Warnings = @ \o
        RowFindings(act, "unusual_feedrate",
                    LAMBDA st : st.FeedRates # 2 /\ st.FeedRates # 4
                                /\ st.FeedRates # 8)]

\* mutant: a negative speed passes
RuleStationSpeedFrom1(res, act) ==
    LET f == RowFindings(act, "invalid_station_speed",
                         LAMBDA st : st.Speed >= 1 /\ st.Speed < 50)
    IN  [res EXCEPT !.Errors = @ \o f, !.Valid = IF f = <<>> THEN @ ELSE FALSE]

RuleStationSpeed(res, act) ==
    LET f == RowFindings(act, "invalid_station_speed",
                         LAMBDA st : st.Speed # 0 /\ st.Speed < 50)
    IN  [res EXCEPT !.Errors = @ \o f, !.Valid = IF f = <<>> THEN @ ELSE FALSE]

RuleStationPHead(res, act) ==
    LET f == RowFindings(act, "invalid_station_phead",
                         LAMBDA st : st.PHead # 1 /\ st.PHead # 2)
    IN  [res EXCEPT !.Errors = @ \o f, !.Valid = IF f = <<>> THEN @ ELSE FALSE]

RuleStationThreshold(res, act) ==
    LET f == RowFindings(act, "invalid_threshold",
                         LAMBDA st : st.NThreshold # 0
                                     /\ (st.NThreshold < 1 \/ st.NThreshold > 256))
    IN  [res EXCEPT !.Errors = @ \o f, !.Valid = IF f = <<>> THEN @ ELSE FALSE]

\* Height > 5.0 and Height < 0 exclude each other: one finding per station
RuleStationHeight(res, act) ==
    LET idx == SelectSeq([i \in 1..Len(act) |-> i],
                         LAMBDA i : act[i].Height > 500 \/ act[i].Height < 0)
        f   == [k \in 1..Len(idx) |->
                   Finding(IF act[idx[k]].Height > 500
                           THEN "station_height_exceeded"
                           ELSE "station_height_negative", idx[k] - 1)]
    IN  [res EXCEPT !.Errors = @ \o f, !.Valid = IF f = <<>> THEN @ ELSE FALSE]

RuleStationsNeedCalibration(res, act) ==
    IF (\A j \in 1..Len(act) : act[j].DeltX = 0 /\ act[j].DeltY = 0)
       /\ Len(act) > 0
    THEN [res EXCEPT !.Warnings =
             Append(@, Finding("stations_need_calibration", 0))]
    ELSE res

RuleComponentNo(res, comps) ==
    [res EXCEPT !.Warnings = @ \o
        [k \in 1..Len(SelectSeq([i \in 1..Len(comps) |-> i],
                                LAMBDA i : comps[i].No # i - 1)) |->
            Finding("component_no_sequence",
                    SelectSeq([i \in 1..Len(comps) |-> i],
                              LAMBDA i : comps[i].No # i - 1)[k] - 1)]]

RuleComponentPHead(res, comps) ==
    LET f == RowFindings(comps, "invalid_phead",
                         LAMBDA c : c.PHead # 1 /\ c.PHead # 2)
    IN  [res EXCEPT !.Errors = @ \o f, !.Valid = IF f = <<>> THEN @ ELSE FALSE]

\* mutant: an orphan placement is reported as a warning
RuleOrphanWarns(res, comps, stationIDs) ==
    [res EXCEPT !.Warnings = @ \o
        RowFindings(comps, "orphan_component",
                    LAMBDA c : c.STNo \notin stationIDs)]

RuleOrphan(res, comps, stationIDs) ==
    LET f == RowFindings(comps, "orphan_component",
                         LAMBDA c : c.STNo \notin stationIDs)
    IN  [res EXCEPT !.Errors = @ \o f, !.Valid = IF f = <<>> THEN @ ELSE FALSE]

RuleSkipStatus(res, comps, act) ==
    [res EXCEPT !.Warnings = @ \o
        RowFindings(comps, "skip_status_mismatch",
                    LAMBDA c : /\ c.STNo \in StationIDs(act)
                               /\ Bit(StationStatusMap(act)[c.STNo], 4)
                               /\ ~Bit(c.Skip, 4))]

RuleNegativeCoordinates(res, comps) ==
    [res EXCEPT !.Warnings = @ \o
        RowFindings(comps, "negative_coordinates",
                    LAMBDA c : c.DeltX < 0 \/ c.DeltY < 0)]

RuleAngle(res, comps) ==
    [res EXCEPT !.Warnings = @ \o
        RowFindings(comps, "angle_out_of_range",
                    LAMBDA c : c.Angle < -18000 \/ c.Angle > 18000)]

RuleComponentSpeed(res, comps) ==
    LET f == RowFindings(comps, "invalid_component_speed",
                         LAMBDA c : c.Speed # 0 /\ c.Speed < 50)
    IN  [res EXCEPT !.Errors = @ \o f, !.Valid = IF f = <<>> THEN @ ELSE FALSE]

\* mutant: the warning is given without any placement too
RuleSingleComponentAtMostOne(res, comps) ==
    IF Len(comps) <= 1
    THEN [res EXCEPT !.Warnings = Append(@, Finding("single_component", 0))]
    ELSE res

RuleSingleComponent(res, comps) ==
    IF Len(comps) = 1
    THEN [res EXCEPT !.Warnings = Append(@, Finding("single_component", 0))]
    ELSE res

\* one warning per placement that has an active station with its STNo and
\* another height
RuleHeightMismatch(res, comps, act) ==
    [res EXCEPT !.Warnings = @ \o
        RowFindings(comps, "height_mismatch",
                    LAMBDA c : \E j \in 1..Len(act) :
                                  act[j].ID = c.STNo /\ c.Height # act[j].Height)]

\* maxX, maxY start at 0
RulePCBSize(res, comps, offset) ==
    LET r1 == IF \E i \in 1..Len(comps) : comps[i].DeltX + offset.X > 34500
              THEN [res EXCEPT !.Warnings = Append(@, Finding("pcb_size_x", 0))]
              ELSE res
    IN  IF \E i \in 1..Len(comps) : comps[i].DeltY + offset.Y > 35500
        THEN [r1 EXCEPT !.Warnings = Append(@, Finding("pcb_size_y", 0))]
        ELSE r1

RulePanelArray(res, panelArray) ==
    IF Len(panelArray) = 0
    THEN [res EXCEPT !.Errors = Append(@, Finding("missing_panel_array", 0)),
                     !.Valid = FALSE]
    ELSE IF panelArray[1].NumX < 1 \/ panelArray[1].NumY < 1
    THEN [res EXCEPT !.Errors = Append(@, Finding("invalid_panel_array", 0)),
                     !.Valid = FALSE]
    ELSE res

\* strings.HasSuffix(strings.ToLower(filename), ".dpv") on the file names
\* of the model
TargetNames == {"", "out.dpv", "out.txt"}

HasDPVSuffix(filename) == filename \in {"out.dpv", "OUT.DPV"}

RuleFilename(res, filename) ==
    IF filename = ""
    THEN [res EXCEPT !.Errors = Append(@, Finding("missing_filename", 0)),
                     !.Valid = FALSE]
    ELSE IF ~HasDPVSuffix(filename)
    THEN [res EXCEPT !.Warnings = Append(@, Finding("filename_extension", 0))]
    ELSE res

ValidateDPV(m, filename) ==
    LET activeComponents == Active(m.Components)
        activeStations   == Active(m.Stations)
        stationIDs       == StationIDs(activeStations)
        r0  == [Valid |-> TRUE, Errors |-> <<>>, Warnings |-> <<>>]
        r1  == RuleStationID(r0, activeStations, Len(activeStations))
        r2  == RuleStationNo(r1, activeStations)
        r3  == RuleStationStatus(r2, activeStations)
        r4  == RuleStationFeedRates(r3, activeStations)
        r5  == RuleStationSpeed(r4, activeStations)
        r6  == RuleStationPHead(r5, activeStations)
        r7  == RuleStationThreshold(r6, activeStations)
        r8  == RuleStationHeight(r7, activeStations)
        r9  == RuleStationsNeedCalibration(r8, activeStations)
        r10 == RuleComponentNo(r9, activeComponents)
        r11 == RuleComponentPHead(r10, activeComponents)
        r12 == RuleOrphan(r11, activeComponents, stationIDs)
        r13 == RuleSkipStatus(r12, activeComponents, activeStations)
        r14 == RuleNegativeCoordinates(r13, activeComponents)
        r15 == RuleAngle(r14, activeComponents)
        r16 == RuleComponentSpeed(r15, activeComponents)
        r17 == RuleSingleComponent(r16, activeComponents)
        r18 == RuleHeightMismatch(r17, activeComponents, activeStations)
        r19 == RulePCBSize(r18, activeComponents, m.GlobalOffset)
        r20 == RulePanelArray(r19, m.PanelArray)
    IN  RuleFilename(r20, filename)

(***************************************************************************)
(* dpv.go: GenerateDPV.  The text is the sequence of its nine sections,    *)
(* each the sequence of its data rows; the empty text is <<>>.  The DATE   *)
(* and TIME lines of the header are left out.                              *)
(***************************************************************************)
\* mutant: only the vision flag is forced
FixSkipVisionOnly(skip, stationStatus) ==
    IF Bit(stationStatus, 4) /\ ~Bit(skip, 4) THEN skip + 4 ELSE skip

\* "Auto-fix Skip to match Station Status flags"
FixSkip(skip, stationStatus) ==
    LET s1 == IF Bit(stationStatus, 4) /\ ~Bit(skip, 4) THEN skip + 4 ELSE skip
    IN  IF Bit(stationStatus, 2) /\ ~Bit(s1, 2) THEN s1 + 2 ELSE s1

\* activeComponents of GenerateDPV
DPVActiveComponents(m) == Active(m.Components)

\* activeStations of GenerateDPV: not DNP and used by an active component
DPVActiveStations(m) ==
    LET activeComponents == DPVActiveComponents(m)
        usedStationIDs   == {activeComponents[i].STNo :
                                i \in 1..Len(activeComponents)}
    IN  SelectSeq(m.Stations, LAMBDA st : ~st.DNP /\ st.ID \in usedStationIDs)

\* mutant: the Station rows carry the stored No.
DPVStationTableStoredNo(m) ==
    LET activeStations == DPVActiveStations(m)
    IN  [i \in 1..Len(activeStations) |->
            [Table |-> "Station", No |-> activeStations[i].No,
             ID |-> activeStations[i].ID,
             DeltX |-> activeStations[i].DeltX,
             DeltY |-> activeStations[i].DeltY,
             FeedRates |-> activeStations[i].FeedRates,
             Note |-> activeStations[i].Note,
             Height |-> activeStations[i].Height,
             Speed |-> activeStations[i].Speed,
             Status |-> activeStations[i].Status,
             NThreshold |-> activeStations[i].NThreshold]]

\* the rows of the Station table
DPVStationTable(m) ==
    LET activeStations == DPVActiveStations(m)
    IN  [i \in 1..Len(activeStations) |->
            [Table |-> "Station", No |-> i - 1, ID |-> activeStations[i].ID,
             DeltX |-> activeStations[i].DeltX,
             DeltY |-> activeStations[i].DeltY,
             FeedRates |-> activeStations[i].FeedRates,
             Note |-> activeStations[i].Note,
             Height |-> activeStations[i].Height,
             Speed |-> activeStations[i].Speed,
             Status |-> activeStations[i].Status,
             NThreshold |-> activeStations[i].NThreshold]]

\* mutant: the stored position is written without the global offset
DPVComponentTableNoOffset(m) ==
    LET activeComponents == DPVActiveComponents(m)
        statusMap        == StationStatusMap(DPVActiveStations(m))
    IN  [i \in 1..Len(activeComponents) |->
            LET c == activeComponents[i]
            IN  [Table |-> "EComponent", No |-> i - 1, ID |-> c.ID,
                 PHead |-> c.PHead, STNo |-> c.STNo,
                 DeltX |-> c.DeltX, DeltY |-> c.DeltY,
                 Angle |-> c.Angle, Height |-> c.Height,
                 Skip |-> IF c.STNo \in DOMAIN statusMap
                          THEN FixSkip(c.Skip, statusMap[c.STNo])
                          ELSE c.Skip,
                 Speed |-> c.Speed, Explain |-> c.Explain, Note |-> c.Note,
                 Delay |-> c.Delay]]

\* the rows of the EComponent table
DPVComponentTable(m) ==
    LET activeComponents == DPVActiveComponents(m)
        statusMap        == StationStatusMap(DPVActiveStations(m))
    IN  [i \in 1..Len(activeComponents) |->
            LET c == activeComponents[i]
            IN  [Table |-> "EComponent", No |-> i - 1, ID |-> c.ID,
                 PHead |-> c.PHead, STNo |-> c.STNo,
                 DeltX |-> c.DeltX + m.GlobalOffset.X,
                 DeltY |-> c.DeltY + m.GlobalOffset.Y,
                 Angle |-> c.Angle, Height |-> c.Height,
                 Skip |-> IF c.STNo \in DOMAIN statusMap
                          THEN FixSkip(c.Skip, statusMap[c.STNo])
                          ELSE c.Skip,
                 Speed |-> c.Speed, Explain |-> c.Explain, Note |-> c.Note,
                 Delay |-> c.Delay]]

DPVText(m, filename) ==
    << <<filename, m.OriginalPOS>>,
       DPVStationTable(m),
       [i \in 1..Len(m.PanelArray) |->
           [Table |-> "Panel_Array", No |-> i - 1, ID |-> m.PanelArray[i].ID,
            IntervalX |-> m.PanelArray[i].IntervalX,
            IntervalY |-> m.PanelArray[i].IntervalY,
            NumX |-> m.PanelArray[i].NumX, NumY |-> m.PanelArray[i].NumY]],
       [i \in 1..Len(m.PanelCoord) |->
           [Table |-> "Panel_Coord", No |-> i - 1, ID |-> m.PanelCoord[i].ID,
            DeltX |-> m.PanelCoord[i].DeltX, DeltY |-> m.PanelCoord[i].DeltY]],
       DPVComponentTable(m),
       <<>>,
       <<[Table |-> "PcbCalib", No |-> 0]>>,
       <<[Table |-> "CalibPoint", No |-> 0, ID |-> 1],
         [Table |-> "CalibPoint", No |-> 1, ID |-> 2],
         [Table |-> "CalibPoint", No |-> 2, ID |-> 3]>>,
       <<[Table |-> "CalibFator", No |-> 0]>> >>

\* mutant: generation proceeds unless the file name is missing
GenerateDPVUnchecked(m, filename) ==
    IF filename = ""
    THEN [err |-> TRUE, text |-> <<>>]
    ELSE [err |-> FALSE, text |-> DPVText(m, filename)]

\* GenerateDPV: (text, error)
GenerateDPV(m, filename) ==
    IF ~ValidateDPV(m, filename).Valid
    THEN [err |-> TRUE, text |-> <<>>]
    ELSE [err |-> FALSE, text |-> DPVText(m, filename)]

(***************************************************************************)
(* Texts.  A text is the sequence of its characters, each a one-character  *)
(* string; the operators below are the functions of the Go packages        *)
(* strings, strconv, fmt and encoding/csv the parsers and generators call, *)
(* on the characters the texts of this model hold (ASCII letters, digits,  *)
(* blank, tab, line feed, carriage return and punctuation).  Numbers with  *)
(* a fraction are in hundredths, as everywhere in this model.              *)
(***************************************************************************)
MinOf(S) == CHOOSE i \in S : \A j \in S : i <= j

MaxOf(S) == CHOOSE i \in S : \A j \in S : j <= i

\* the indices of s, in order, as a sequence
Indices(s) == [i \in 1..Len(s) |-> i]

\* unicode.IsSpace
IsSpace(c) == c \in {" ", "\t", "\n", "\r"}

Upper == <<"A","B","C","D","E","F","G","H","I","J","K","L","M","N","O","P","Q",
      "R","S","T","U","V","W","X","Y","Z">>

Lower == <<"a","b","c","d","e","f","g","h","i","j","k","l","m","n","o","p","q",
      "r","s","t","u","v","w","x","y","z">>

UpperLetters == {Upper[i] : i \in 1..26}

ToLowerCh(c) ==
    IF c \in UpperLetters
    THEN Lower[CHOOSE i \in 1..26 : Upper[i] = c]
    ELSE c

\* strings.ToLower
ToLower(s) == [i \in 1..Len(s) |-> ToLowerCh(s[i])]

\* strings.TrimSpace
TrimSpace(s) ==
    LET I == {i \in 1..Len(s) : ~IsSpace(s[i])}
    IN  IF I = {} THEN <<>> ELSE SubSeq(s, MinOf(I), MaxOf(I))

\* strings.HasPrefix
HasPrefix(s, p) == Len(s) >= Len(p) /\ SubSeq(s, 1, Len(p)) = p

\* strings.HasSuffix
HasSuffix(s, p) ==
    Len(s) >= Len(p) /\ SubSeq(s, Len(s) - Len(p) + 1, Len(s)) = p

\* strings.TrimPrefix
TrimPrefix(s, p) ==
    IF HasPrefix(s, p) THEN SubSeq(s, Len(p) + 1, Len(s)) ELSE s

\* strings.TrimSuffix
TrimSuffix(s, p) ==
    IF HasSuffix(s, p) THEN SubSeq(s, 1, Len(s) - Len(p)) ELSE s

\* strings.Contains
Contains(s, sub) ==
    \E i \in 1..(Len(s) - Len(sub) + 1) :
        \A k \in 1..Len(sub) : s[i + k - 1] = sub[k]

\* strings.Contains(strings.ToLower(s), sub)
ContainsLower(s, sub) ==
    \E i \in 1..(Len(s) - Len(sub) + 1) :
        \A k \in 1..Len(sub) : ToLowerCh(s[i + k - 1]) = sub[k]

\* strings.ReplaceAll(text, "\r", "")
RemoveCR(s) == SelectSeq(s, LAMBDA c : c # "\r")

\* strings.Split(s, sep) for a separator of one character
Split(s, sep) ==
    LET p == SelectSeq(Indices(s), LAMBDA i : s[i] = sep)
        n == Len(p)
    IN  [k \in 1..(n + 1) |->
            SubSeq(s, IF k = 1 THEN 1 ELSE p[k - 1] + 1,
                      IF k = n + 1 THEN Len(s) ELSE p[k] - 1)]

\* strings.Join
RECURSIVE Join(_, _)
Join(parts, sep) ==
    IF parts = <<>> THEN <<>>
    ELSE IF Len(parts) = 1 THEN parts[1]
    ELSE parts[1] \o sep \o Join(Tail(parts), sep)

Digits == <<"0","1","2","3","4","5","6","7","8","9">>

IsDigit(c) == \E i \in 1..10 : Digits[i] = c

DigitVal(c) == (CHOOSE i \in 1..10 : Digits[i] = c) - 1

\* the value of a sequence of digits
RECURSIVE DecVal(_)
DecVal(s) ==
    IF s = <<>> THEN 0
    ELSE DecVal(SubSeq(s, 1, Len(s) - 1)) * 10 + DigitVal(s[Len(s)])

AllDigits(s) == \A i \in 1..Len(s) : IsDigit(s[i])

Signed(s) == s # <<>> /\ s[1] \in {"+", "-"}

Unsigned(s) == IF Signed(s) THEN Tail(s) ELSE s

SignOf(s) == IF s # <<>> /\ s[1] = "-" THEN -1 ELSE 1

\* strconv.Atoi: an optional sign and one or more digits
Atoi(s) ==
    IF Unsigned(s) # <<>> /\ AllDigits(Unsigned(s))
    THEN [ok |-> TRUE, v |-> SignOf(s) * DecVal(Unsigned(s))]
    ELSE [ok |-> FALSE, v |-> 0]

\* strconv.ParseFloat(s, 64) on decimal numerals without exponent: an
\* optional sign, digits, and an optional point with digits; the value in
\* hundredths, of which only the first two decimals count
ParseFloat(s) ==
    LET body == Unsigned(s)
        dots == {i \in 1..Len(body) : body[i] = "."}
        int  == IF dots = {} THEN body ELSE SubSeq(body, 1, MinOf(dots) - 1)
        frac == IF dots = {} THEN <<>>
                ELSE SubSeq(body, MinOf(dots) + 1, Len(body))
        cent == SubSeq(frac \o <<"0", "0">>, 1, 2)
    IN  IF /\ Cardinality(dots) <= 1
           /\ AllDigits(int) /\ AllDigits(frac)
           /\ int \o frac # <<>>
        THEN [ok |-> TRUE,
              v  |-> SignOf(s) * (DecVal(int) * 100 + DecVal(cent))]
        ELSE [ok |-> FALSE, v |-> 0]

\* fmt "%d" of a number that is not negative
RECURSIVE FormatNat(_)
FormatNat(n) ==
    IF n < 10 THEN <<Digits[n + 1]>>
    ELSE FormatNat(n \div 10) \o <<Digits[(n % 10) + 1]>>

\* fmt "%d"
FormatInt(n) == IF n < 0 THEN <<"-">> \o FormatNat(-n) ELSE FormatNat(n)

\* fmt "%.2f" of a number of hundredths
FormatFloat2(v) ==
    LET a == IF v < 0 THEN -v ELSE v
    IN  (IF v < 0 THEN <<"-">> ELSE <<>>)
        \o FormatNat(a \div 100) \o <<".">>
        \o <<Digits[((a \div 10) % 10) + 1], Digits[(a % 10) + 1]>>

(***************************************************************************)
(* stack.go: the text of GenerateStack and GenerateStacksFile.  Every line *)
(* ends with CR LF.                                                        *)
(***************************************************************************)
\* strings.ReplaceAll(s, "\"", "\"\"")
RECURSIVE DoubleQuotes(_)
DoubleQuotes(s) ==
    IF s = <<>> THEN <<>>
    ELSE (IF s[1] = "\"" THEN <<"\"", "\"">> ELSE <<s[1]>>)
         \o DoubleQuotes(Tail(s))

\* stackCsvEscape
stackCsvEscape(s) ==
    IF \E i \in 1..Len(s) : s[i] \in {",", "\"", "\r", "\n"}
    THEN <<"\"">> \o DoubleQuotes(s) \o <<"\"">>
    ELSE s

CRLF == <<"\r", "\n">>

\* the lines before the Station rows
StackPreamble(file) ==
    <<"s","e","p","a","r","a","t","e","d">> \o CRLF
    \o <<"F","I","L","E",",">> \o file \o CRLF
    \o <<"P","A","N","E","L","Y","P","E",",","1">> \o CRLF
    \o CRLF
    \o <<"T","a","b","l","e",",","N","o",".",",","I","D",",","P","H","e","a",
      "d",",","D","e","l","t","X",",","D","e","l","t","Y",",","F","e",
      "e","d","R","a","t","e","s",",","N","o","t","e",",","H","e","i",
      "g","h","t",",","S","p","e","e","d",",","S","t","a","t","u","s",
      ",">>
    \o <<"n","P","i","x","S","i","z","e","X",",","n","P","i","x","S","i","z",
      "e","Y",",","H","e","i","g","h","t","T","a","k","e",",","D","e",
      "l","a","y","T","a","k","e",",","n","P","u","l","l","S","t","r",
      "i","p","S","p","e","e","d",",","n","T","h","r","e","s","h","o",
      "l","d",",","n","V","i","s","u","a","l","R","a","d","i","o">>
    \o CRLF

\* the Sprintf of one Station row; the columns the model's feeders do not
\* carry hold the values parseStationRow starts from
StationLine(row) ==
    Join(<<<<"S","t","a","t","i","o","n">>, FormatInt(row.No), FormatInt(row.ID),
           FormatInt(row.PHead), FormatFloat2(row.DeltX),
           FormatFloat2(row.DeltY), FormatInt(row.FeedRates),
           stackCsvEscape(row.Note), FormatFloat2(row.Height),
           FormatInt(row.Speed), FormatInt(row.Status),
           FormatInt(0), FormatInt(0), FormatFloat2(0), FormatInt(10),
           FormatInt(85), FormatInt(row.NThreshold), FormatInt(200)>>,
         <<",">>)
    \o CRLF

RECURSIVE StationLines(_)
StationLines(rows) ==
    IF rows = <<>> THEN <<>>
    ELSE StationLine(Head(rows)) \o StationLines(Tail(rows))

\* GenerateStack
GenerateStack(m) ==
    StackPreamble(<<"M","a","t","e","r","i","a","l","S","t","a","c","k",".","s","t","a",
      "c","k">>)
    \o StationLines(GenerateStackRows(m))

\* GenerateStacksFile
GenerateStacksFile(m) ==
    StackPreamble(<<"m","a","t","e","r","i","a","l",".","s","t","a","c","k","s">>)
    \o StationLines(GenerateStacksFileRows(m))

(***************************************************************************)
(* stack.go: ParseStack.  The result is err (an error and no stations) or  *)
(* the stations.                                                           *)
(***************************************************************************)
CsvError == [err |-> TRUE, rec |-> <<>>]

\* a field in front of the rest of its record
CsvPrepend(field, r) ==
    IF r.err THEN r ELSE [err |-> FALSE, rec |-> <<field>> \o r.rec]

\* encoding/csv, Reader.readRecord on one line without line end, with
\* LazyQuotes and TrimLeadingSpace off: csvFields reads from the start of a
\* field, csvQuoted from inside a quoted field.  A quote in a field that
\* does not start with one is ErrBareQuote; a quoted field that does not
\* end, or ends before anything but a comma, is ErrQuote.
RECURSIVE csvFields(_), csvQuoted(_, _)
csvFields(line) ==
    IF line = <<>> \/ line[1] # "\""
    THEN LET commas == {i \in 1..Len(line) : line[i] = ","}
             j      == IF commas = {} THEN Len(line) + 1 ELSE MinOf(commas)
             field  == SubSeq(line, 1, j - 1)
         IN  IF \E i \in 1..Len(field) : field[i] = "\"" THEN CsvError
             ELSE IF j > Len(line) THEN [err |-> FALSE, rec |-> <<field>>]
             ELSE CsvPrepend(field, csvFields(SubSeq(line, j + 1, Len(line))))
    ELSE csvQuoted(Tail(line), <<>>)

csvQuoted(rest, acc) ==
    LET quotes == {i \in 1..Len(rest) : rest[i] = "\""}
        i      == MinOf(quotes)
        buf    == acc \o SubSeq(rest, 1, i - 1)
        after  == SubSeq(rest, i + 1, Len(rest))
    IN  IF quotes = {} THEN CsvError
        ELSE IF after = <<>> THEN [err |-> FALSE, rec |-> <<buf>>]
        ELSE IF after[1] = "\"" THEN csvQuoted(Tail(after), Append(buf, "\""))
        ELSE IF after[1] = "," THEN CsvPrepend(buf, csvFields(Tail(after)))
        ELSE CsvError

\* the "DPV format markers"
IsDPV(text) ==
    \/ ContainsLower(text, <<"s","e","p","a","r","a","t","e","d">>)
    \/ ContainsLower(text, <<"s","t","a","t","i","o","n">>)

\* the prefixes of the "header lines" that are skipped
SkippedPrefixes ==
    {<<"s","e","p","a","r","a","t","e","d">>, <<"f","i","l","e",",">>, <<"p","c","b","f","i","l","e",",">>, <<"d","a","t","e",",">>,
     <<"t","i","m","e",",">>, <<"p","a","n","e","l","y","p","e",",">>}

\* the "default header if none found"
DefaultHeader ==
    <<<<"T","a","b","l","e">>, <<"N","o",".">>, <<"I","D">>, <<"D","e","l","t","X">>, <<"D","e","l","t","Y">>,
      <<"F","e","e","d","R","a","t","e","s">>, <<"N","o","t","e">>, <<"H","e","i","g","h","t">>, <<"S","p","e","e","d">>, <<"S","t","a","t","u","s">>,
      <<"n","P","i","x","S","i","z","e","X">>, <<"n","P","i","x","S","i","z","e","Y">>, <<"H","e","i","g","h","t","T","a","k","e">>, <<"D","e","l","a","y","T","a","k","e">>,
      <<"n","P","u","l","l","S","t","r","i","p","S","p","e","e","d">>, <<"n","T","h","r","e","s","h","o","l","d">>, <<"n","V","i","s","u","a","l","R","a","d","i","o">>>>

\* parseStationRow, on the fields of XStation this model carries; colMap is
\* the 1-based index of the last header cell of the name, 0 if there is none
parseStationRow(header, row) ==
    LET names == SelectSeq([i \in 1..Len(header) |->
                               ToLower(TrimSpace(header[i]))],
                           LAMBDA h : TRUE)
        colMap(name) == MaxOf({0} \cup {i \in 1..Len(names) : names[i] = name})
        getValue(name) ==
            IF colMap(name) # 0 /\ colMap(name) <= Len(row)
            THEN TrimSpace(row[colMap(name)]) ELSE <<>>
        getInt(name, def) ==
            LET v == getValue(name)
                i == Atoi(v)
            IN  IF v = <<>> THEN def ELSE IF i.ok THEN i.v ELSE def
        getFloat(name, def) ==
            LET v == getValue(name)
                f == ParseFloat(v)
            IN  IF v = <<>> THEN def ELSE IF f.ok THEN f.v ELSE def
    IN  [DefaultStation EXCEPT
           !.No         = getInt(<<"n","o",".">>, 0),
           !.ID         = getInt(<<"i","d">>, 1),
           !.DeltX      = getFloat(<<"d","e","l","t","x">>, 0),
           !.DeltY      = getFloat(<<"d","e","l","t","y">>, 0),
           !.FeedRates  = getInt(<<"f","e","e","d","r","a","t","e","s">>, 4),
           !.Note       = getValue(<<"n","o","t","e">>),
           !.Height     = getFloat(<<"h","e","i","g","h","t">>, 50),
           !.Speed      = getInt(<<"s","p","e","e","d">>, 0),
           !.Status     = getInt(<<"s","t","a","t","u","s">>, 4),
           !.NThreshold = getInt(<<"n","t","h","r","e","s","h","o","l","d">>, 110),
           !.PHead      = getInt(<<"p","h","e","a","d">>, 1)]

\* the loop over the lines, with the header and the stations so far
RECURSIVE ParseStackLines(_, _, _)
ParseStackLines(lines, header, stations) ==
    IF lines = <<>> THEN stations
    ELSE LET line  == TrimSpace(Head(lines))
             lower == ToLower(line)
             r     == csvFields(line)
             first == TrimSpace(r.rec[1])
             hdr   == IF header = <<>> THEN DefaultHeader ELSE header
         IN  IF line = <<>>
             THEN ParseStackLines(Tail(lines), header, stations)
             ELSE IF \E p \in SkippedPrefixes : HasPrefix(lower, p)
             THEN ParseStackLines(Tail(lines), header, stations)
             ELSE IF r.err
             THEN ParseStackLines(Tail(lines), header, stations)
             ELSE IF first = <<"T","a","b","l","e">>
             THEN ParseStackLines(Tail(lines), r.rec, stations)
             ELSE IF first = <<"S","t","a","t","i","o","n">>
             THEN ParseStackLines(Tail(lines), hdr,
                     Append(stations, parseStationRow(hdr, r.rec)))
             ELSE ParseStackLines(Tail(lines), header, stations)

StackError == [err |-> TRUE, stations |-> <<>>]

\* ParseStack
ParseStack(text) ==
    LET stations == ParseStackLines(Split(RemoveCR(text), "\n"), <<>>, <<>>)
    IN  IF ~IsDPV(text) THEN StackError
        ELSE IF stations = <<>> THEN StackError
        ELSE [err |-> FALSE, stations |-> stations]

(***************************************************************************)
(* pos.go: ParsePOS on the whitespace-delimited format.  The result is     *)
(* err (an error and no data) or the headers and the rows.                 *)
(***************************************************************************)
\* "contains commas in data lines": the text goes to parseCSVFormat
IsCSVFormat(text) ==
    Contains(text, <<",">>) /\ ~HasPrefix(TrimSpace(text), <<"#">>)

\* splitByWhitespace
splitByWhitespace(line) ==
    LET s == TrimSpace(line)
        starts == SelectSeq(Indices(s),
                     LAMBDA i : ~IsSpace(s[i]) /\ (i = 1 \/ IsSpace(s[i - 1])))
        EndOf(i) == MinOf({j \in i..Len(s) : j = Len(s) \/ IsSpace(s[j + 1])})
    IN  [k \in 1..Len(starts) |-> SubSeq(s, starts[k], EndOf(starts[k]))]

\* the header names buildColumnMap files under each key
ColumnNames ==
    [ref     |-> {<<"r","e","f">>, <<"d","e","s","i","g","n","a","t","o","r">>},
     val     |-> {<<"v","a","l">>, <<"v","a","l","u","e">>},
     package |-> {<<"p","a","c","k","a","g","e">>, <<"f","o","o","t","p","r","i","n","t">>},
     posx    |-> {<<"p","o","s","x">>, <<"m","i","d"," ","x">>, <<"c","e","n","t","e","r","-","x","(","m","m",")">>},
     posy    |-> {<<"p","o","s","y">>, <<"m","i","d"," ","y">>, <<"c","e","n","t","e","r","-","y","(","m","m",")">>},
     rot     |-> {<<"r","o","t">>, <<"r","o","t","a","t","i","o","n">>},
     side    |-> {<<"s","i","d","e">>, <<"l","a","y","e","r">>, <<"t","b">>}]

\* buildColumnMap: colMap[key], as the 1-based index of the last header cell
\* filed under key, 0 if the key is absent
buildColumnMap(headers) ==
    [key \in DOMAIN ColumnNames |->
        LET J == {j \in 1..Len(headers) :
                     ToLower(TrimSpace(headers[j])) \in ColumnNames[key]}
        IN  IF J = {} THEN 0 ELSE MaxOf(J)]

\* parseFloat of pos.go: a trailing "mm" is dropped
parseFloat(s) ==
    ParseFloat(TrimSpace(TrimSuffix(TrimSpace(s), <<"m","m">>)))

\* parseRowFields
parseRowFields(fields, colMap) ==
    LET Has(key) == colMap[key] # 0 /\ colMap[key] <= Len(fields)
        Str(key) == IF Has(key) THEN TrimSpace(fields[colMap[key]]) ELSE <<>>
        Num(key) == IF Has(key) /\ parseFloat(fields[colMap[key]]).ok
                    THEN parseFloat(fields[colMap[key]]).v ELSE 0
    IN  [Ref |-> Str("ref"), Val |-> Str("val"), Package |-> Str("package"),
         PosX |-> Num("posx"), PosY |-> Num("posy"), Rot |-> Num("rot"),
         Side |-> Str("side")]

\* a line that "starts with #" once trimmed
IsCommentLine(line) == HasPrefix(TrimSpace(line), <<"#">>)

\* the comment line without its "#", trimmed
CommentContent(line) == TrimSpace(TrimPrefix(TrimSpace(line), <<"#">>))

\* mutant: the header is the first comment line, whatever it contains
headerLineIdxFirstComment(lines) ==
    LET C == {i \in 1..Len(lines) : IsCommentLine(lines[i])}
    IN  IF C = {} THEN 0 ELSE MinOf(C)

\* headerLineIdx after both passes, 1-based; 0 when no line was chosen
headerLineIdx(lines) ==
    LET R == {i \in 1..Len(lines) :
                 /\ IsCommentLine(lines[i])
                 /\ ContainsLower(CommentContent(lines[i]), <<"r","e","f">>)}
        C == {i \in 1..Len(lines) : IsCommentLine(lines[i])}
    IN  IF R # {} THEN MinOf(R) ELSE IF C # {} THEN MinOf(C) ELSE 0

POSError == [err |-> TRUE, headers |-> <<>>, rows |-> <<>>]

\* parseKiCadFormat
parseKiCadFormat(text) ==
    LET lines      == Split(RemoveCR(text), "\n")
        idx        == headerLineIdx(lines)
        headerLine == IF idx = 0 THEN <<>> ELSE CommentContent(lines[idx])
        dataLines  == SelectSeq(SubSeq(lines, idx + 1, Len(lines)),
                         LAMBDA l : TrimSpace(l) # <<>> /\ ~IsCommentLine(l))
        headers    == splitByWhitespace(headerLine)
        colMap     == buildColumnMap(headers)
        parsed     == [k \in 1..Len(dataLines) |->
                          parseRowFields(splitByWhitespace(dataLines[k]), colMap)]
    IN  IF headerLine = <<>> THEN POSError
        ELSE IF headers = <<>> THEN POSError
        ELSE IF colMap.ref = 0 \/ colMap.val = 0 THEN POSError
        ELSE [err |-> FALSE, headers |-> headers,
              rows |-> SelectSeq(parsed, LAMBDA r : r.Ref # <<>>)]

(***************************************************************************)
(* The inputs of the handlers.                                             *)
(***************************************************************************)
\* a POS row as parseRowFields returns it (rows without Ref are dropped)
POSRowOf(val) ==
    [Ref |-> "R", Val |-> val, Package |-> "", PosX |-> 100, PosY |-> 200,
     Rot |-> 0]

\* the rows ParsePOS returns: files of up to two rows
POSFiles == SeqsOfLen({POSRowOf(v) : v \in Labels}, 0..2)

\* a Station as parseStationRow returns it: Select and DNP are never set, and
\* No. and ID are read from the row
ParsedStation(no, note, status) ==
    [DefaultStation EXCEPT !.No = no, !.ID = no + 1, !.Note = note,
                           !.Status = status]

IncomingStatus == {6}

\* the Station lists ParseStack returns without error: one or two rows,
\* numbered 0.. as GenerateStacksFile writes them
StackFilesParsed ==
    {inc \in SeqsOfLen(
                {ParsedStation(no, n, st) :
                    no \in 0..1, n \in Labels, st \in IncomingStatus},
                1..2) :
        \A k \in 1..Len(inc) : inc[k].No = k - 1}

EditIDs == {1, 99}

\* the XFiles a client sends to /api/xfile/update after editing one cell of
\* the XFile it holds
ClientEdits(m) ==
    {[m EXCEPT !.Stations[i].DNP = b] :
        i \in 1..Len(m.Stations), b \in BOOLEAN}
    \cup {[m EXCEPT !.Stations[i].ID = v] :
        i \in 1..Len(m.Stations), v \in EditIDs}
    \cup {[m EXCEPT !.Components[i].STNo = v] :
        i \in 1..Len(m.Components), v \in EditIDs}

\* last: the operation, its inputs, the counts it returned, whether it
\* repeats the merge before it (same variant, same list), whether it
\* updated a feeder that was doNotPlace, whether its file name was in the
\* list of merged files before it, the validation result and the
\* (text, error) it returned, the Station rows of the .stack file of an
\* export, the lines and the text a parser was given with its result, and
\* the number of sessions a Cleanup removed
NoOp == [op |-> "none", incoming |-> <<>>, filename |-> "", merged |-> 0,
         added |-> 0, repeat |-> FALSE, undnp |-> FALSE, known |-> FALSE,
         removed |-> 0,
         report |-> [Valid |-> TRUE, Errors |-> <<>>, Warnings |-> <<>>],
         out |-> [err |-> FALSE, text |-> <<>>],
         stack |-> <<>>, lines |-> <<>>, text |-> <<>>,
         pos |-> [err |-> FALSE, headers |-> <<>>, rows |-> <<>>],
         parsed |-> [err |-> FALSE, stations |-> <<>>]]

UpdatedDNP(pre, post) ==
    \E j \in 1..Len(pre) : pre[j].DNP /\ post[j] # pre[j]

(***************************************************************************)
(* storage.FileStore and the handlers as concurrent requests.  Every       *)
(* section under fs.mu is one step.  An XFile object lives in heap under   *)
(* its address; 0 is nil.  os.WriteFile may fail at any call.              *)
(***************************************************************************)
SessionIDs == {"s1"}

Clients == {"c1", "c2"}

Handlers == {"UploadPOS", "UploadStack", "UpdateXFile", "GetXFile"}

\* a client without a request in flight
IdleReq == [pc |-> "idle", kind |-> "none", sid |-> "", ptr |-> 0,
            ok |-> FALSE, mid |-> FALSE]

\* the addresses in use, and a free one
Live(ss, rq) ==
    {ss[id].XFile : id \in DOMAIN ss} \cup ({rq[c].ptr : c \in Clients} \ {0})

NewPtr(h) == CHOOSE p \in 1..(Cardinality(DOMAIN h) + 1) : p \notin DOMAIN h

\* garbage collection: the objects no session and no request refers to
Collect(h, ss, rq) == [p \in Live(ss, rq) |-> h[p]]

\* the files uploaded and the XFiles posted by the clients of the store
StorePOS == {<<POSRowOf("A")>>}

StoreStacks == {<<ParsedStation(0, n, 6)>> : n \in {"A", "B"}}

ClientXFiles ==
    {[ConvertPOSToXFile(<<POSRowOf("A")>>, "board.pos")
         EXCEPT !.Components[1].STNo = 5]}

\* saveSession with os.WriteFile succeeding (written) or failing
saveSession(d, ss, h, id, written) ==
    IF written THEN [i \in DOMAIN d \cup {id} |->
                        IF i = id THEN h[ss[id].XFile] ELSE d[i]]
    ELSE d

\* mutant of TouchSession: the session is saved, not stamped
TouchSessionNoStamp(id, written) ==
    /\ disk' = saveSession(disk, sessions, heap, id, written)
    /\ UNCHANGED <<heap, sessions, stats>>

\* FileStore.TouchSession(id) of a known session
TouchSession(id, written) ==
    /\ sessions' = [sessions EXCEPT ![id].UpdatedAt = now]
    /\ disk' = saveSession(disk, sessions', heap, id, written)
    /\ UNCHANGED <<heap, stats>>

\* FileStore.CreateSession, id being the uuid it draws: when the write fails
\* the session is deleted again and the counter is left alone
CreateSession(id, written) ==
    LET p  == NewPtr(heap)
        h1 == [q \in DOMAIN heap \cup {p} |->
                  IF q = p THEN NewXFile ELSE heap[q]]
        s1 == [i \in DOMAIN sessions \cup {id} |->
                  IF i = id THEN [ID |-> id, XFile |-> p, CreatedAt |-> now,
                                  UpdatedAt |-> now]
                  ELSE sessions[i]]
    IN  IF written
        THEN /\ heap' = h1
             /\ sessions' = s1
             /\ disk' = saveSession(disk, s1, h1, id, TRUE)
             /\ stats' = stats + 1
        ELSE UNCHANGED <<heap, sessions, disk, stats>>

\* SessionMiddleware, then the handler up to its first call of the store.
\* With a known cookie: TouchSession, whose error is dropped.  Otherwise:
\* CreateSession, whose error ends the request.
Begin(c) ==
    \E kind \in Handlers, cookie \in SessionIDs \cup {""}, written \in BOOLEAN :
        /\ req[c].pc = "idle"
        /\ nOps < MaxOps
        /\ nOps' = nOps + 1
        /\ IF cookie \in DOMAIN sessions
           THEN /\ TouchSession(cookie, written)
                /\ req' = [req EXCEPT ![c] =
                      [IdleReq EXCEPT !.pc = "handler", !.kind = kind,
                                      !.sid = cookie]]
           ELSE \E id \in SessionIDs \ DOMAIN sessions :
                  /\ CreateSession(id, written)
                  /\ req' = [req EXCEPT ![c] =
                        IF written
                        THEN [IdleReq EXCEPT !.pc = "handler",
                                             !.kind = kind, !.sid = id]
                        ELSE [IdleReq EXCEPT !.pc = "respond",
                                             !.kind = kind]]
        /\ UNCHANGED <<xf, last, now>>

\* FileStore.UpdateSession(sid, the object at p of heap h) by client c
UpdateSessionStep(c, h, p, written) ==
    LET sid == req[c].sid
    IN  IF sid \notin DOMAIN sessions
        THEN /\ req' = [req EXCEPT ![c].pc = "respond", ![c].ok = FALSE,
                                   ![c].ptr = 0]
             /\ heap' = Collect(h, sessions, req')
             /\ UNCHANGED <<sessions, disk>>
        ELSE /\ sessions' = [sessions EXCEPT ![sid].XFile = p,
                                             ![sid].UpdatedAt = now]
             /\ disk' = saveSession(disk, sessions', h, sid, written)
             /\ req' = [req EXCEPT ![c].pc = "respond", ![c].ok = written,
                                   ![c].ptr = 0]
             /\ heap' = Collect(h, sessions', req')

\* Handler.UploadPOS and Handler.UpdateXFile: a new XFile replaces the
\* session's
ReplaceXFile(c) ==
    \E written \in BOOLEAN,
       m \in IF req[c].kind = "UploadPOS"
             THEN {ConvertPOSToXFile(rows, "board.pos") : rows \in StorePOS}
             ELSE ClientXFiles :
        /\ req[c].pc = "handler"
        /\ req[c].kind \in {"UploadPOS", "UpdateXFile"}
        /\ LET p == NewPtr(heap)
           IN  UpdateSessionStep(c, [q \in DOMAIN heap \cup {p} |->
                                       IF q = p THEN m ELSE heap[q]],
                                 p, written)
        /\ UNCHANGED <<now, stats, xf, last, nOps>>

\* FileStore.GetSession in Handler.UploadStack and Handler.GetXFile
GetSession(c) ==
    /\ req[c].pc = "handler"
    /\ req[c].kind \in {"UploadStack", "GetXFile"}
    /\ req' = IF req[c].sid \in DOMAIN sessions
              THEN [req EXCEPT ![c].pc = IF req[c].kind = "UploadStack"
                                         THEN "merge" ELSE "encode",
                               ![c].ptr = sessions[req[c].sid].XFile]
              ELSE [req EXCEPT ![c].pc = "respond", ![c].ok = FALSE]
    /\ UNCHANGED <<now, stats, xf, last, nOps, heap, sessions, disk>>

\* Handler.UploadStack: ParseStack, then MergeStationsIntoXFile on the
\* object GetSession returned, up to the re-derivation
MergeInPlace(c) ==
    \E inc \in StoreStacks, filename \in FileNames :
        LET p == req[c].ptr
            m == MergeStationsBeforeRederive(heap[p], inc, filename)
        IN  /\ req[c].pc = "merge"
            /\ Len(m.Stations) <= MaxStations
            /\ heap' = [heap EXCEPT ![p] = m]
            /\ req' = [req EXCEPT ![c].pc = "rederive"]
            /\ UNCHANGED <<now, stats, xf, last, nOps, sessions, disk>>

\* the last statement of MergeStationsIntoXFile
RederiveInPlace(c) ==
    /\ req[c].pc = "rederive"
    /\ heap' = [heap EXCEPT ![req[c].ptr] = rederiveComponentSTNo(@)]
    /\ req' = [req EXCEPT ![c].pc = "update"]
    /\ UNCHANGED <<now, stats, xf, last, nOps, sessions, disk>>

\* Handler.UploadStack: UpdateSession with the object it merged into
SaveMerged(c) ==
    \E written \in BOOLEAN :
        /\ req[c].pc = "update"
        /\ UpdateSessionStep(c, heap, req[c].ptr, written)
        /\ UNCHANGED <<now, stats, xf, last, nOps>>

\* another request is between the feeder merge and the re-derivation of the
\* object at p, and the re-derivation is going to change it
MidMerge(c, p) ==
    \E d \in Clients \ {c} :
        /\ req[d].pc = "rederive"
        /\ req[d].ptr = p
        /\ rederiveComponentSTNo(heap[p]) # heap[p]

\* Handler.GetXFile: json.Encode of the object GetSession returned
Encode(c) ==
    /\ req[c].pc = "encode"
    /\ req' = [req EXCEPT ![c].pc = "respond", ![c].ok = TRUE, ![c].ptr = 0,
                          ![c].mid = MidMerge(c, req[c].ptr)]
    /\ heap' = Collect(heap, sessions, req')
    /\ UNCHANGED <<now, stats, xf, last, nOps, sessions, disk>>

\* the response is written and the request returns
Respond(c) ==
    /\ req[c].pc = "respond"
    /\ req' = [req EXCEPT ![c] = IdleReq]
    /\ UNCHANGED <<now, stats, xf, last, nOps, heap, sessions, disk>>

\* NewFileStore on an empty baseDir; no request in flight
Init ==
    /\ xf = NewXFile
    /\ last = NoOp
    /\ nOps = 0
    /\ heap = <<>>
    /\ sessions = <<>>
    /\ disk = <<>>
    /\ req = [c \in Clients |-> IdleReq]
    /\ now = 0
    /\ stats = 0

(***************************************************************************)
(* handlers: the sequential view of one session (one request at a time)    *)
(***************************************************************************)
\* Handler.UploadPOS: ParsePOS, ConvertPOSToXFile, UpdateSession
UploadPOS ==
    \E rows \in POSFiles :
        /\ nOps < MaxOps
        /\ xf' = ConvertPOSToXFile(rows, "board.pos")
        /\ last' = [NoOp EXCEPT !.op = "UploadPOS"]
        /\ nOps' = nOps + 1
        /\ UNCHANGED storeVars

\* Handler.UploadStack: GetSession, ParseStack, MergeStationsIntoXFile,
\* UpdateSession
UploadStack ==
    \E inc \in StackFilesParsed, filename \in FileNames :
        LET r == MergeStationsIntoXFile(xf, inc, filename)
        IN  /\ nOps < MaxOps
            /\ Len(r.xf.Stations) <= MaxStations
            /\ xf' = r.xf
            /\ last' = [NoOp EXCEPT
                  !.op = "UploadStack", !.incoming = inc,
                  !.filename = filename, !.merged = r.merged,
                  !.known = (filename \in Range(xf.StackFiles)),
                  !.repeat = (last.op = "UploadStack" /\ last.incoming = inc),
                  !.undnp = UpdatedDNP(xf.Stations, r.xf.Stations)]
            /\ nOps' = nOps + 1
            /\ UNCHANGED storeVars

\* MergeStacksFile on a parsable .stacks file
MergeStacks ==
    \E inc \in StackFilesParsed :
        LET r == MergeStacksFile(xf, inc)
        IN  /\ nOps < MaxOps
            /\ Len(r.xf.Stations) <= MaxStations
            /\ xf' = r.xf
            /\ last' = [NoOp EXCEPT
                  !.op = "MergeStacks", !.incoming = inc,
                  !.merged = r.merged, !.added = r.added,
                  !.repeat = (last.op = "MergeStacks" /\ last.incoming = inc),
                  !.undnp = UpdatedDNP(xf.Stations, r.xf.Stations)]
            /\ nOps' = nOps + 1
            /\ UNCHANGED storeVars

\* Handler.UpdateXFile: the session's XFile is replaced by the client's
UpdateXFile ==
    \E m \in ClientEdits(xf) :
        /\ nOps < MaxOps
        /\ xf' = m
        /\ last' = [NoOp EXCEPT !.op = "UpdateXFile"]
        /\ nOps' = nOps + 1
        /\ UNCHANGED storeVars

NextMerge == UploadPOS \/ UploadStack \/ MergeStacks \/ UpdateXFile

\* the rows ParsePOS returns for files whose rows all carry a value
LabelledPOSFiles ==
    {rows \in POSFiles : \A i \in 1..Len(rows) : rows[i].Val # ""}

\* Handler.UploadPOS of such a file
UploadLabelledPOS ==
    \E rows \in LabelledPOSFiles :
        /\ nOps < MaxOps
        /\ xf' = ConvertPOSToXFile(rows, "board.pos")
        /\ last' = [NoOp EXCEPT !.op = "UploadPOS"]
        /\ nOps' = nOps + 1
        /\ UNCHANGED storeVars

\* a session in which the client imports and merges but never edits
NextImport == UploadLabelledPOS \/ UploadStack \/ MergeStacks

SpecImport == Init /\ [][NextImport]_vars

SpecMerge == Init /\ [][NextMerge]_vars

(***************************************************************************)
(* Validation and generation of the DPV file of a session's XFile          *)
(***************************************************************************)
\* the XFiles a client sends to /api/xfile/update after editing one cell of
\* the first feeder, the first placement, the panel array, the offset, or a
\* doNotPlace flag
CellEdits(m) ==
    {[m EXCEPT !.Stations[1] = st] :
        st \in IF m.Stations = <<>> THEN {}
               ELSE {[m.Stations[1] EXCEPT !.Speed = v] :
                       v \in {-1, 1, 49, 50}}
                    \cup {[m.Stations[1] EXCEPT !.ID = v] :
                       v \in {2, 30, 70, 99, 100, 150}}
                    \cup {[m.Stations[1] EXCEPT !.Status = v] : v \in {2, 16}}
                    \cup {[m.Stations[1] EXCEPT !.Height = v] : v \in {-10, 510}}
                    \cup {[m.Stations[1] EXCEPT !.No = 1],
                          [m.Stations[1] EXCEPT !.FeedRates = 3],
                          [m.Stations[1] EXCEPT !.PHead = 3],
                          [m.Stations[1] EXCEPT !.NThreshold = 257],
                          [m.Stations[1] EXCEPT !.DeltX = 100]}}
    \cup {[m EXCEPT !.Components[1] = c] :
        c \in IF m.Components = <<>> THEN {}
              ELSE {[m.Components[1] EXCEPT !.STNo = v] : v \in {2, 5, 150}}
                   \cup {[m.Components[1] EXCEPT !.Speed = v] :
                            v \in {-1, 1, 49, 50}}
                   \cup {[m.Components[1] EXCEPT !.DeltX = v] : v \in {-100}}
                   \cup {[m.Components[1] EXCEPT !.No = 1],
                         [m.Components[1] EXCEPT !.PHead = 3],
                         [m.Components[1] EXCEPT !.Skip = 0],
                         [m.Components[1] EXCEPT !.Angle = 18100],
                         [m.Components[1] EXCEPT !.Height = 60]}}
    \cup {[m EXCEPT !.Stations[i].Select = TRUE] :
             i \in 1..Len(m.Stations) \cap {1}}
    \cup {[m EXCEPT !.Components[i].Select = TRUE] :
             i \in 1..Len(m.Components) \cap {1}}
    \cup {[m EXCEPT !.Stations[i].DNP = TRUE] : i \in 1..Len(m.Stations)}
    \cup {[m EXCEPT !.Components[i].DNP = TRUE] : i \in 1..Len(m.Components)}
    \cup {[m EXCEPT !.PanelArray = <<>>]}
    \cup {[m EXCEPT !.PanelArray[1].NumX = 0] : k \in 1..Len(m.PanelArray)}
    \cup {[m EXCEPT !.GlobalOffset.X = 34500],
          [m EXCEPT !.GlobalOffset.Y = 35500]}

\* the rows ParsePOS returns for a board of one or two labelled parts
BoardFiles == {<<POSRowOf("A")>>, <<POSRowOf("A"), POSRowOf("B")>>}

\* Handler.UploadPOS of a board file
UploadBoard ==
    \E rows \in BoardFiles :
        /\ nOps < MaxOps
        /\ xf' = ConvertPOSToXFile(rows, "board.pos")
        /\ last' = [NoOp EXCEPT !.op = "UploadPOS"]
        /\ nOps' = nOps + 1
        /\ UNCHANGED storeVars

\* Handler.UpdateXFile with a one-cell edit
UpdateXFileCell ==
    \E m \in CellEdits(xf) :
        /\ nOps < MaxOps
        /\ xf' = m
        /\ last' = [NoOp EXCEPT !.op = "UpdateXFile"]
        /\ nOps' = nOps + 1
        /\ UNCHANGED storeVars

\* the XFile is as the last upload or edit left it.  ValidateDPV,
\* GenerateDPV and Export read the XFile and leave it alone, so the
\* behaviours apply them once to every XFile a session reaches.
Unread == last.op \in {"none", "UploadPOS", "UpdateXFile"}

\* ValidateDPV applied to the session's XFile and a target file name
Validate ==
    \E filename \in TargetNames :
        /\ Unread
        /\ last' = [NoOp EXCEPT !.op = "ValidateDPV", !.filename = filename,
                                !.report = ValidateDPV(xf, filename)]
        /\ UNCHANGED <<xf, nOps, heap, sessions, disk, req, now, stats>>

\* GenerateDPV applied to the session's XFile and a target file name
Generate ==
    \E filename \in TargetNames :
        /\ Unread
        /\ last' = [NoOp EXCEPT !.op = "GenerateDPV", !.filename = filename,
                                !.out = GenerateDPV(xf, filename)]
        /\ UNCHANGED <<xf, nOps, heap, sessions, disk, req, now, stats>>

\* Handler.Export with ?filename=out: ValidateDPV, GenerateDPV and
\* GenerateStack; the ZIP holds the job file and the .stack file
Export ==
    /\ Unread
    /\ last' = IF ~ValidateDPV(xf, "out.dpv").Valid
               THEN [NoOp EXCEPT !.op = "Export", !.filename = "out.dpv",
                                 !.report = ValidateDPV(xf, "out.dpv"),
                                 !.out = [err |-> TRUE, text |-> <<>>]]
               ELSE [NoOp EXCEPT !.op = "Export", !.filename = "out.dpv",
                                 !.out = GenerateDPV(xf, "out.dpv"),
                                 !.stack = GenerateStackRows(xf)]
    /\ UNCHANGED <<xf, nOps, heap, sessions, disk, req, now, stats>>

NextDPV == UploadBoard \/ UpdateXFileCell \/ Validate \/ Generate \/ Export

SpecDPV == Init /\ [][NextDPV]_vars

NextStore ==
    \E c \in Clients :
        \/ Begin(c)
        \/ ReplaceXFile(c)
        \/ GetSession(c)
        \/ MergeInPlace(c)
        \/ RederiveInPlace(c)
        \/ SaveMerged(c)
        \/ Encode(c)
        \/ Respond(c)

SpecStore == Init /\ [][NextStore]_vars

(***************************************************************************)
(* The sessions over time: SessionMiddleware step by step (SessionExists,  *)
(* then CreateSession or TouchSession, each under its own lock), the       *)
(* clock, and Cleanup and DeleteSession at any moment between the steps of *)
(* the requests.                                                           *)
(***************************************************************************)
\* FileStore.maxAge, in units of the clock
maxAge == 2

\* the clock stops here
MaxTime == maxAge + 1

\* time passes; last keeps an operation for the unit of time it ran in
Tick ==
    /\ now < MaxTime
    /\ now' = now + 1
    /\ last' = NoOp
    /\ UNCHANGED <<xf, nOps, heap, sessions, disk, req, stats>>

\* the requests of the clients of this specification
SessionHandlers == {"GetXFile", "UpdateXFile"}

\* SessionMiddleware: the cookie of the request and SessionExists
CheckCookie(c) ==
    \E kind \in SessionHandlers, cookie \in SessionIDs \cup {""} :
        /\ req[c].pc = "idle"
        /\ nOps < MaxOps
        /\ nOps' = nOps + 1
        /\ req' = [req EXCEPT ![c] =
              IF cookie \in DOMAIN sessions
              THEN [IdleReq EXCEPT !.pc = "touch", !.kind = kind,
                                   !.sid = cookie]
              ELSE [IdleReq EXCEPT !.pc = "create", !.kind = kind]]
        /\ UNCHANGED <<xf, last, heap, sessions, disk, now, stats>>

\* SessionMiddleware: CreateSession for a request without a known cookie
NewSession(c) ==
    \E written \in BOOLEAN, id \in SessionIDs \ DOMAIN sessions :
        /\ req[c].pc = "create"
        /\ CreateSession(id, written)
        /\ req' = [req EXCEPT ![c].pc = IF written THEN "handler"
                                        ELSE "respond",
                              ![c].sid = IF written THEN id ELSE ""]
        /\ UNCHANGED <<xf, last, nOps, now>>

\* SessionMiddleware: TouchSession, whose error (unknown session, failed
\* write) is dropped
Touch(c) ==
    \E written \in BOOLEAN :
        /\ req[c].pc = "touch"
        /\ IF req[c].sid \in DOMAIN sessions
           THEN TouchSession(req[c].sid, written)
           ELSE UNCHANGED <<heap, sessions, disk, stats>>
        /\ req' = [req EXCEPT ![c].pc = "handler"]
        /\ UNCHANGED <<xf, last, nOps, now>>

\* mutant of Expired: a session of exactly the maximum age is expired too
ExpiredAtMaxAge(s, t) == s.UpdatedAt <= t - maxAge

\* session.UpdatedAt.Before(cutoff) in Cleanup at the time t
Expired(s, t) == s.UpdatedAt < t - maxAge

\* the store without the sessions of the set gone; the session files are
\* removed with them
RemoveSessions(gone) ==
    /\ sessions' = [id \in DOMAIN sessions \ gone |-> sessions[id]]
    /\ disk' = [id \in DOMAIN disk \ gone |-> disk[id]]
    /\ heap' = Collect(heap, sessions', req)

\* FileStore.Cleanup
Cleanup ==
    LET toDelete == {id \in DOMAIN sessions : Expired(sessions[id], now)}
    IN  /\ RemoveSessions(toDelete)
        /\ last' = [NoOp EXCEPT !.op = "Cleanup",
                                !.removed = Cardinality(toDelete)]
        /\ UNCHANGED <<xf, nOps, req, now, stats>>

\* FileStore.DeleteSession
DeleteSession ==
    \E id \in SessionIDs :
        /\ RemoveSessions({id} \cap DOMAIN sessions)
        /\ last' = [NoOp EXCEPT !.op = "DeleteSession"]
        /\ UNCHANGED <<xf, nOps, req, now, stats>>

NextSession ==
    \/ Tick
    \/ Cleanup
    \/ DeleteSession
    \/ \E c \in Clients :
          \/ CheckCookie(c)
          \/ NewSession(c)
          \/ Touch(c)
          \/ ReplaceXFile(c)
          \/ GetSession(c)
          \/ Encode(c)
          \/ Respond(c)

SpecSession == Init /\ [][NextSession]_vars

(***************************************************************************)
(* The parsers as functions of the uploaded text                           *)
(***************************************************************************)
\* the lines of the uploaded placement files: headers with and without
\* "ref", comments that are no header, placements, a blank line
POSLines ==
    {<<"#"," ","R","e","f"," ","V","a","l">>, <<"#"," ","D","e","s","i","g","n","a","t","o","r"," ","V","a","l","u",
      "e">>, <<"#","p","r","e","f">>, <<"#"," ","V","a","l">>,
     <<"#"," ","V","a","l"," ","R","e","f">>, <<"R","1"," ","1","0","k">>, <<" ","C","1","\t","1","u"," ">>, <<"R","2",",","1","k">>, <<"1","k">>,
     <<>>}

\* the line ends of the uploaded files
LineEnds == {<<"\n">>, <<"\r", "\n">>}

\* models.ParsePOS on a text of the whitespace-delimited format; a behaviour
\* parses one text
ParsePOSText ==
    /\ last.op = "none"
    /\ \E lines \in SeqsOfLen(POSLines, 1..MaxPOSLines), nl \in LineEnds :
          /\ ~IsCSVFormat(Join(lines, nl))
          /\ last' = [NoOp EXCEPT !.op = "ParsePOS", !.lines = lines,
                                  !.text = Join(lines, nl),
                                  !.pos = parseKiCadFormat(Join(lines, nl))]
    /\ UNCHANGED <<xf, nOps, heap, sessions, disk, req, now, stats>>

\* the lines of the uploaded feeder files: the marker line, Table headers,
\* Station rows with cells that parse, do not parse or are missing, a
\* Station row with a quoted note, a Station row with a quote inside a
\* cell, a row of another type, a blank line
StackLines ==
    {<<"s","e","p","a","r","a","t","e","d">>, <<"T","a","b","l","e",",","N","o",".",",","I","D",",","N","o","t","e",
      ",","S","t","a","t","u","s">>, <<"T","a","b","l","e",",","N","o","t","e",",","I","D">>,
     <<"S","t","a","t","i","o","n",",","0",",","2",",","a",",","6">>, <<"S","t","a","t","i","o","n",",","1",",","x",",","b">>, <<"S","t","a","t","i","o","n",",","0",",","3",",","\"","a",",","b",
      "\"",",","6">>,
     <<"S","t","a","t","i","o","n",",","0",",","1",",","5","\""," ","t",
      "a","p","e",",","4">>, <<"I","C","T","r","a","y",",","0",",","1">>, <<>>}

\* models.ParseStack on an uploaded text; a behaviour parses one text
ParseStackText ==
    /\ last.op = "none"
    /\ \E lines \in SeqsOfLen(StackLines, 1..MaxStackLines), nl \in LineEnds :
          last' = [NoOp EXCEPT !.op = "ParseStack", !.lines = lines,
                               !.text = Join(lines, nl),
                               !.parsed = ParseStack(Join(lines, nl))]
    /\ UNCHANGED <<xf, nOps, heap, sessions, disk, req, now, stats>>

\* the notes of the feeders that are exported and read back
ExportedNotes ==
    {<<"a">>, <<"a",",","b">>, <<"a","\"","b">>, <<"a","\n","b">>, <<" ","a">>, <<"a"," ">>, <<>>}

\* the feeders that are exported and read back
ExportedStations ==
    {[DefaultStation EXCEPT !.Note = note, !.DNP = dnp, !.ID = v[1],
                            !.DeltX = v[2], !.DeltY = v[3], !.Status = v[4],
                            !.PHead = v[5]] :
        note \in ExportedNotes, dnp \in BOOLEAN,
        v \in {<<1, 0, 0, 4, 1>>, <<2, -150, 1275, 6, 2>>}}

\* Handler.ExportStacks on an XFile with the feeders stations, and
\* models.ParseStack on the text it returns
ParseGeneratedStacks ==
    /\ last.op = "none"
    /\ \E stations \in SeqsOfLen(ExportedStations, 1..2) :
          LET m == [NewXFile EXCEPT !.Stations =
                       [i \in 1..Len(stations) |->
                           [stations[i] EXCEPT !.No = i - 1]]]
          IN  last' = [NoOp EXCEPT !.op = "ParseGenerated",
                                   !.incoming = m.Stations,
                                   !.text = GenerateStacksFile(m),
                                   !.parsed = ParseStack(GenerateStacksFile(m))]
    /\ UNCHANGED <<xf, nOps, heap, sessions, disk, req, now, stats>>

NextText == ParsePOSText \/ ParseStackText \/ ParseGeneratedStacks

SpecText == Init /\ [][NextText]_vars

(***************************************************************************)
(* Properties of the merge (stack.go).  A merge step is a step whose       *)
(* last'.op is UploadStack (MergeStationsIntoXFile) or MergeStacks         *)
(* (MergeStacksFile); xf is the XFile before it, xf' the XFile after it    *)
(* and last'.incoming the merged list.                                     *)
(***************************************************************************)
MergeOps == {"UploadStack", "MergeStacks"}

\* the loop of the merge variant op after k incoming stations
LoopOf(op, stations, incoming, k) ==
    IF op = "UploadStack" THEN MergeStationsLoop(stations, incoming, k)
    ELSE MergeStacksLoop(stations, incoming, k)

NotesOf(stations) == {stations[j].Note : j \in 1..Len(stations)}

SetMax(S) == IF S = {} THEN 0 ELSE CHOOSE m \in S : \A x \in S : x <= m

\* s and t agree on every field but No
SameButNo(s, t) == [s EXCEPT !.No = t.No] = t

C5_ReferenceStability ==
    [][last'.op \in MergeOps
       => \A i \in 1..Len(xf.Components), j \in 1..Len(xf.Stations) :
             (/\ xf.Components[i].Explain = xf.Stations[j].Note
              /\ xf'.Stations[j] # xf.Stations[j])
             => /\ xf'.Stations[j].ID = xf.Stations[j].ID
                /\ ~xf'.Stations[j].DNP
                /\ xf'.Components[i].STNo = xf'.Stations[j].ID]_vars

\* a merge has updated a feeder that was doNotPlace and carries a
\* placement's value label
C5_Witness ==
    /\ last.op \in MergeOps
    /\ last.merged >= 1
    /\ last.undnp
    /\ \E i \in 1..Len(xf.Components), j \in 1..Len(xf.Stations) :
          /\ xf.Components[i].Explain = xf.Stations[j].Note
          /\ xf.Stations[j].Note \in NotesOf(last.incoming)
          /\ xf.Stations[j].Status \in IncomingStatus
          /\ xf.Components[i].STNo = xf.Stations[j].ID

\* the k-th incoming feeder replaces entry j of the list: every field but
\* the id (and the seqNo, for MergeStacksFile) is the incoming one's, the
\* list keeps its length and the merged count grows by one
Replaces(op, b, a, j, incoming) ==
    /\ Len(a.stations) = Len(b.stations)
    /\ a.merged = b.merged + 1
    /\ a.added = b.added
    /\ a.stations =
          [b.stations EXCEPT ![j] =
              IF op = "UploadStack"
              THEN [incoming EXCEPT !.ID = b.stations[j].ID]
              ELSE [incoming EXCEPT !.ID = b.stations[j].ID,
                                    !.No = b.stations[j].No]]

\* the merge step of variant op from pre to post treats every incoming
\* feeder whose note is in keys as a replacement of the last existing
\* feeder carrying that note
UpdatesInPlace(op, pre, post, incoming, merged, keys) ==
    /\ LoopOf(op, pre, incoming, Len(incoming)).stations = post
    /\ LoopOf(op, pre, incoming, Len(incoming)).merged = merged
    /\ \A k \in 1..Len(incoming) :
          incoming[k].Note \in keys
          => \E j \in 1..Len(pre) :
                /\ pre[j].Note = incoming[k].Note
                /\ Replaces(op, LoopOf(op, pre, incoming, k - 1),
                            LoopOf(op, pre, incoming, k), j, incoming[k])

Rederived(preC, postC, postS, keys) ==
    /\ Len(postC) = Len(preC)
    /\ \A i \in 1..Len(preC) :
          /\ [postC[i] EXCEPT !.STNo = preC[i].STNo] = preC[i]
          /\ IF postC[i].Explain \in keys \cap NotesOf(postS)
             THEN \E j \in 1..Len(postS) :
                     /\ postS[j].Note = postC[i].Explain
                     /\ postS[j].ID = postC[i].STNo
             ELSE postC[i].Explain \notin NotesOf(postS)
                  => postC[i].STNo = preC[i].STNo

ActiveIdx(rows) == {i \in 1..Len(rows) : ~rows[i].DNP}

\* C1: GenerateDPV returns an error and the empty text exactly when
\* ValidateDPV reports valid = false for the same model and file name;
\* otherwise it returns no error and the text of all nine sections.
C1_GenerateIffValid ==
    last.op = "GenerateDPV" =>
        /\ last.out.err <=> ~ValidateDPV(xf, last.filename).Valid
        /\ last.out.err => last.out.text = <<>>
        /\ ~last.out.err =>
              /\ Len(last.out.text) = 9
              /\ last.out.text[1] = <<last.filename, xf.OriginalPOS>>
              /\ Len(last.out.text[5]) = Cardinality(ActiveIdx(xf.Components))
              /\ Len(last.out.text[8]) = 3

\* a model with an active placement was generated
C1_Witness ==
    /\ last.op = "GenerateDPV"
    /\ ~last.out.err
    /\ Len(last.out.text[5]) > 0

\* a model was refused although the file name was given
C1_WitnessRefused ==
    /\ last.op = "GenerateDPV"
    /\ last.filename # ""
    /\ last.out.err

\* C2: ValidateDPV reports valid = false exactly when its error list is not
\* empty; warnings alone leave valid = true.
C2_ValidIffNoErrors ==
    last.op = "ValidateDPV" =>
        (last.report.Valid <=> last.report.Errors = <<>>)

\* a result with errors and warnings, and the reserved-id error among them
C2_Witness ==
    /\ last.op = "ValidateDPV"
    /\ Len(last.report.Errors) >= 2
    /\ last.report.Warnings # <<>>
    /\ \E k \in 1..Len(last.report.Errors) :
          last.report.Errors[k].Type = "reserved_station_id"

C2_WitnessWarningsOnly ==
    /\ last.op = "ValidateDPV"
    /\ last.report.Valid
    /\ Len(last.report.Warnings) >= 2

\* C3: when ValidateDPV reports valid = true, the STNo of every placement
\* that is not doNotPlace is the id of exactly one feeder that is not
\* doNotPlace.
C3_ValidReferences ==
    (last.op = "ValidateDPV" /\ last.report.Valid) =>
        \A i \in ActiveIdx(xf.Components) :
            Cardinality({j \in ActiveIdx(xf.Stations) :
                            xf.Stations[j].ID = xf.Components[i].STNo}) = 1

\* a valid model with two active placements on different feeders
C3_Witness ==
    /\ last.op = "ValidateDPV"
    /\ last.report.Valid
    /\ \E i, j \in ActiveIdx(xf.Components) :
          xf.Components[i].STNo # xf.Components[j].STNo

(***************************************************************************)
(* Properties of the session store under concurrent requests               *)
(***************************************************************************)
\* the request of client c is between its GetSession and its UpdateSession
Mutating(c) == req[c].pc \in {"merge", "rederive", "update"}

\* C9: at most one mutation of a session's model is in flight: no two
\* requests are between GetSession and UpdateSession on the same object, and
\* no reader has encoded an object between the feeder merge and the
\* re-derivation of another request.
C9_OneMutationInFlight ==
    /\ \A c, d \in Clients :
          (c # d /\ Mutating(c) /\ Mutating(d)) => req[c].ptr # req[d].ptr
    /\ \A c \in Clients : ~req[c].mid

\* C10: when a request returns successfully, the stored copy of its session
\* equals the session's XFile in memory.
C10_StoredEqualsMemory ==
    [][\A c \in Clients :
          (/\ req[c].pc = "respond"
           /\ req[c].ok
           /\ req'[c].pc = "idle"
           /\ req[c].sid \in DOMAIN sessions')
          => /\ req[c].sid \in DOMAIN disk'
             /\ disk'[req[c].sid] = heap'[sessions'[req[c].sid].XFile]]_vars

(***************************************************************************)
(* Properties of the generated job file (dpv.go, GenerateDPV).             *)
(* last.out.text[2] is the Station table and last.out.text[5] the          *)
(* EComponent table of the XFile xf.                                       *)
(***************************************************************************)
\* the k-th smallest element of the set of indices S
NthOf(S, k) == CHOOSE i \in S : Cardinality({j \in S : j < i}) = k - 1

\* the feeders that are not doNotPlace and whose id is the STNo of a
\* placement that is not doNotPlace
UsedIdx(m) ==
    {j \in ActiveIdx(m.Stations) :
        \E i \in ActiveIdx(m.Components) :
            m.Components[i].STNo = m.Stations[j].ID}

Generated == last.op = "GenerateDPV" /\ ~last.out.err

\* C11: the EComponent table holds exactly the placements that are not
\* doNotPlace, in stored order, the Station table exactly the feeders that
\* are not doNotPlace and are referenced by such a placement, in stored
\* order, and the k-th row of each table carries the number k - 1.
C11_ActiveRowsRenumbered ==
    Generated =>
        /\ Len(last.out.text[5]) = Cardinality(ActiveIdx(xf.Components))
        /\ \A k \in 1..Len(last.out.text[5]) :
              LET c == xf.Components[NthOf(ActiveIdx(xf.Components), k)]
                  r == last.out.text[5][k]
              IN  /\ r.No = k - 1
                  /\ <<r.ID, r.STNo, r.PHead, r.Explain, r.Note>>
                        = <<c.ID, c.STNo, c.PHead, c.Explain, c.Note>>
        /\ Len(last.out.text[2]) = Cardinality(UsedIdx(xf))
        /\ \A k \in 1..Len(last.out.text[2]) :
              LET st == xf.Stations[NthOf(UsedIdx(xf), k)]
                  r  == last.out.text[2][k]
              IN  /\ r.No = k - 1
                  /\ <<r.ID, r.Note, r.Status, r.Height>>
                        = <<st.ID, st.Note, st.Status, st.Height>>

\* a feeder was dropped from the job file and an emitted feeder has a stored
\* No. other than its row number
C11_Witness ==
    /\ Generated
    /\ Len(last.out.text[2]) < Len(xf.Stations)
    /\ \E k \in 1..Len(last.out.text[2]) :
          xf.Stations[NthOf(UsedIdx(xf), k)].No # k - 1

\* C12: every exported position is the stored position plus the global
\* offset, and neither ValidateDPV nor GenerateDPV changes the XFile.
C12_OffsetOnlyInOutput ==
    [][last'.op \in {"ValidateDPV", "GenerateDPV"} =>
          /\ xf' = xf
          /\ (last'.op = "GenerateDPV" /\ ~last'.out.err) =>
                \A k \in 1..Len(last'.out.text[5]) :
                    LET c == xf.Components[NthOf(ActiveIdx(xf.Components), k)]
                        r == last'.out.text[5][k]
                    IN  /\ r.DeltX = c.DeltX + xf.GlobalOffset.X
                        /\ r.DeltY = c.DeltY + xf.GlobalOffset.Y]_vars

\* a placement was exported with an offset other than zero
C12_Witness ==
    /\ Generated
    /\ xf.GlobalOffset.X # 0 \/ xf.GlobalOffset.Y # 0
    /\ Len(last.out.text[5]) > 0

\* the feeder a placement that is not doNotPlace refers to in a valid XFile
FeederOf(m, c) ==
    m.Stations[CHOOSE j \in ActiveIdx(m.Stations) : m.Stations[j].ID = c.STNo]

\* C13: the exported skip value has exactly the bits of the stored Skip, plus
\* bit 2 (value 4) and bit 1 (value 2) where the referenced feeder's Status
\* has them; no stored bit is cleared.
C13_SkipAutoFix ==
    Generated =>
        \A k \in 1..Len(last.out.text[5]) :
            LET c   == xf.Components[NthOf(ActiveIdx(xf.Components), k)]
                out == last.out.text[5][k].Skip
                st  == FeederOf(xf, c).Status
            IN  /\ \A b \in {1, 2, 4, 8} :
                      Bit(out, b) <=>
                          (Bit(c.Skip, b) \/ (b \in {2, 4} /\ Bit(st, b)))
                /\ out \div 16 = c.Skip \div 16

\* a placement was exported with the vacuum bit forced in and its stored
\* vision bit kept
C13_Witness ==
    /\ Generated
    /\ \E k \in 1..Len(last.out.text[5]) :
          LET c == xf.Components[NthOf(ActiveIdx(xf.Components), k)]
          IN  /\ ~Bit(c.Skip, 2) /\ Bit(c.Skip, 4)
              /\ last.out.text[5][k].Skip = c.Skip + 2

\* C14: for every valid XFile and every placement whose exported skip value
\* differs from the stored Skip, ValidateDPV reports a skip_status_mismatch
\* warning for the row of that placement.
C14_AutoFixFlagged ==
    Generated =>
        \A k \in 1..Len(last.out.text[5]) :
            LET c == xf.Components[NthOf(ActiveIdx(xf.Components), k)]
                w == ValidateDPV(xf, last.filename).Warnings
            IN  last.out.text[5][k].Skip # c.Skip =>
                    \E n \in 1..Len(w) :
                        w[n] = Finding("skip_status_mismatch", k - 1)

\* C15: the .stack file of the export package lists exactly the feeders that
\* are not doNotPlace, referenced or not, in stored order, and its k-th row
\* carries the number k - 1.
C15_BackupRenumbered ==
    (last.op = "Export" /\ ~last.out.err) =>
        /\ Len(last.stack) = Cardinality(ActiveIdx(xf.Stations))
        /\ \A k \in 1..Len(last.stack) :
              LET st == xf.Stations[NthOf(ActiveIdx(xf.Stations), k)]
              IN  /\ last.stack[k].No = k - 1
                  /\ <<last.stack[k].ID, last.stack[k].Note>> = <<st.ID, st.Note>>

(***************************************************************************)
(* Properties of the import (pos.go, ConvertPOSToXFile).  After UploadPOS, *)
(* xf.POSRows holds the rows the XFile xf was converted from.              *)
(***************************************************************************)
\* the index of the first row carrying the label v
FirstRow(rows, v) ==
    CHOOSE i \in 1..Len(rows) :
        rows[i].Val = v /\ \A j \in 1..(i - 1) : rows[j].Val # v

\* C17: ConvertPOSToXFile creates one feeder per distinct value label of the
\* rows, the empty label included, in first-seen order, with id = rank and
\* note = label, and one placement per row whose STNo is the id of the
\* feeder whose note is the row's label.
C17_OneFeederPerLabel ==
    last.op = "UploadPOS" =>
        LET rows == xf.POSRows
            vals == {rows[i].Val : i \in 1..Len(rows)}
        IN  /\ Len(xf.Stations) = Cardinality(vals)
            /\ \A k \in 1..Len(xf.Stations) :
                  /\ xf.Stations[k].ID = k
                  /\ xf.Stations[k].Note \in vals
                  /\ \A j \in 1..(k - 1) :
                        FirstRow(rows, xf.Stations[j].Note)
                           < FirstRow(rows, xf.Stations[k].Note)
            /\ Len(xf.Components) = Len(rows)
            /\ \A i \in 1..Len(rows) :
                  \E k \in 1..Len(xf.Stations) :
                      /\ xf.Stations[k].Note = rows[i].Val
                      /\ xf.Components[i].STNo = xf.Stations[k].ID

(***************************************************************************)
(* Non-interference of the rows validation does not look at                *)
(***************************************************************************)
\* the XFile without its doNotPlace rows and with every Select cleared
StripInactive(m) ==
    LET Placed(rows) == SelectSeq(rows, LAMBDA r : ~r.DNP)
        Unselect(rows) == [k \in 1..Len(rows) |->
                              [rows[k] EXCEPT !.Select = FALSE]]
    IN  [m EXCEPT !.Stations   = Unselect(Placed(m.Stations)),
                  !.Components = Unselect(Placed(m.Components))]

\* C20: ValidateDPV returns the same errors and the same warnings, in the
\* same order and with the same rows, for an XFile and for the XFile
\* without its doNotPlace rows and Select flags; so two XFiles that differ
\* only in those get identical results.
C20_InactiveRowsIgnored ==
    last.op = "ValidateDPV" =>
        last.report = ValidateDPV(StripInactive(xf), last.filename)

\* an invalid doNotPlace feeder lies before an active one, and findings
\* were reported
C20_Witness ==
    /\ last.op = "ValidateDPV"
    /\ \E j \in 1..Len(xf.Stations) :
          /\ xf.Stations[j].DNP
          /\ xf.Stations[j] # [DefaultStation EXCEPT
                                  !.No = xf.Stations[j].No,
                                  !.ID = xf.Stations[j].No + 1,
                                  !.Note = xf.Stations[j].Note,
                                  !.DNP = TRUE]
          /\ \E l \in (j + 1)..Len(xf.Stations) : ~xf.Stations[l].DNP
    /\ last.report.Warnings # <<>>

(***************************************************************************)
(* Properties of the placement-file parser (pos.go).  After ParsePOSText,  *)
(* last.lines are the lines of the text and last.pos is the result.        *)
(***************************************************************************)
\* the line holds nothing but blanks
BlankLine(l) == \A i \in 1..Len(l) : IsSpace(l[i])

\* the first character of the line that is no blank is "#"
CommentPrefixed(l) ==
    \E i \in 1..Len(l) : l[i] = "#" /\ \A j \in 1..(i - 1) : IsSpace(l[j])

\* the line contains "ref" in any case
MentionsRef(l) ==
    \E i \in 1..(Len(l) - 2) :
        l[i] \in {"r", "R"} /\ l[i + 1] \in {"e", "E"} /\ l[i + 2] \in {"f", "F"}

\* the columns of a comment-prefixed line taken as the header
HeaderCells(l) ==
    splitByWhitespace(SubSeq(l, MinOf({i \in 1..Len(l) : l[i] = "#"}) + 1, Len(l)))

\* the header the text is read with: 0 if there is none
ChosenHeader(lines) ==
    LET R == {i \in 1..Len(lines) :
                 CommentPrefixed(lines[i]) /\ MentionsRef(lines[i])}
        C == {i \in 1..Len(lines) : CommentPrefixed(lines[i])}
    IN  IF R # {} THEN MinOf(R) ELSE IF C # {} THEN MinOf(C) ELSE 0

\* the header has a column of one of the names
Provides(l, names) ==
    \E j \in 1..Len(HeaderCells(l)) : ToLower(HeaderCells(l)[j]) \in names

\* the field of the line under the last column of the header with one of the
\* names, empty if the line is too short
FieldUnder(l, hdr, names) ==
    LET col == MaxOf({j \in 1..Len(HeaderCells(hdr)) :
                         ToLower(HeaderCells(hdr)[j]) \in names})
    IN  IF col <= Len(splitByWhitespace(l))
        THEN splitByWhitespace(l)[col] ELSE <<>>

\* C18: the header is the first comment-prefixed line containing "ref" or,
\* failing that, the first comment-prefixed line; the result is an error
\* without data when there is no such line or the header lacks a reference
\* column or a value column, and otherwise one row per later line that is
\* neither comment nor blank and has a reference field, in order.
C18_HeaderAndRows ==
    last.op = "ParsePOS" =>
        LET lines == last.lines
            h     == ChosenHeader(lines)
            ok    == /\ h # 0
                     /\ Provides(lines[h], ColumnNames.ref)
                     /\ Provides(lines[h], ColumnNames.val)
            D     == {j \in (h + 1)..Len(lines) :
                         /\ ~BlankLine(lines[j])
                         /\ ~CommentPrefixed(lines[j])
                         /\ FieldUnder(lines[j], lines[h], ColumnNames.ref) # <<>>}
        IN  /\ last.pos.err = ~ok
            /\ ~ok => last.pos.rows = <<>> /\ last.pos.headers = <<>>
            /\ ok =>
                 /\ Len(last.pos.rows) = Cardinality(D)
                 /\ \A k \in 1..Len(last.pos.rows) :
                       /\ last.pos.rows[k].Ref =
                             FieldUnder(lines[NthOf(D, k)], lines[h], ColumnNames.ref)
                       /\ last.pos.rows[k].Val =
                             FieldUnder(lines[NthOf(D, k)], lines[h], ColumnNames.val)

\* a text whose header is not its first comment line, parsed into a row,
\* with a later line dropped for want of a reference field
C18_Witness ==
    /\ last.op = "ParsePOS"
    /\ ~last.pos.err
    /\ ChosenHeader(last.lines) > 1
    /\ CommentPrefixed(last.lines[1])
    /\ last.pos.rows # <<>>

\* a text refused because its header has no reference column
C18_WitnessNoRefColumn ==
    /\ last.op = "ParsePOS"
    /\ last.pos.err
    /\ ChosenHeader(last.lines) # 0

\* a text with a header, a row, and a line dropped for want of a reference
\* field
C18_WitnessRowDropped ==
    /\ last.op = "ParsePOS"
    /\ ~last.pos.err
    /\ last.pos.rows # <<>>
    /\ \E j \in (ChosenHeader(last.lines) + 1)..Len(last.lines) :
          /\ ~BlankLine(last.lines[j]) /\ ~CommentPrefixed(last.lines[j])
          /\ FieldUnder(last.lines[j], last.lines[ChosenHeader(last.lines)],
                        ColumnNames.ref) = <<>>

(***************************************************************************)
(* Properties of the feeder-file parser (stack.go).  After ParseStackText, *)
(* last.lines are the lines of the text; after ParseGeneratedStacks,       *)
(* last.incoming are the feeders the text was generated from; last.parsed  *)
(* is the result of ParseStack.                                            *)
(***************************************************************************)
\* C16: the text generated from feeders of which one at least is not
\* doNotPlace parses, and yields in order one feeder per exported feeder
\* with the same note, id, position, status and preferred head.
C16_RoundTrip ==
    (last.op = "ParseGenerated" /\ ActiveIdx(last.incoming) # {}) =>
        /\ ~last.parsed.err
        /\ Len(last.parsed.stations) = Cardinality(ActiveIdx(last.incoming))
        /\ \A k \in 1..Len(last.parsed.stations) :
              LET st == last.incoming[NthOf(ActiveIdx(last.incoming), k)]
                  p  == last.parsed.stations[k]
              IN  <<p.Note, p.ID, p.DeltX, p.DeltY, p.Status, p.PHead>>
                    = <<st.Note, st.ID, st.DeltX, st.DeltY, st.Status, st.PHead>>

\* the line is a data row of the feeder type: its first cell is "Station"
FeederTyped(l) ==
    LET t      == TrimSpace(l)
        commas == {i \in 1..Len(t) : t[i] = ","}
        cell   == IF commas = {} THEN t ELSE SubSeq(t, 1, MinOf(commas) - 1)
    IN  TrimSpace(cell) = <<"S","t","a","t","i","o","n">>

\* the line holds the format marker
HasMarker(l) ==
    ContainsLower(l, <<"s","e","p","a","r","a","t","e","d">>) \/ ContainsLower(l, <<"s","t","a","t","i","o","n">>)

\* C19, on which rows are returned: ParseStack returns an error and no
\* feeders when no line holds the marker or no line is a feeder row, and
\* otherwise one feeder per feeder row.
C19_OneFeederPerRow ==
    last.op = "ParseStack" =>
        LET F  == {i \in 1..Len(last.lines) : FeederTyped(last.lines[i])}
            ok == F # {} /\ \E i \in 1..Len(last.lines) : HasMarker(last.lines[i])
        IN  /\ last.parsed.err = ~ok
            /\ ~ok => last.parsed.stations = <<>>
            /\ ok => Len(last.parsed.stations) = Cardinality(F)

(***************************************************************************)
(* Properties of single validation rules (dpv.go, ValidateDPV).  The row   *)
(* of a finding is the index of the feeder or placement among the rows     *)
(* that are not doNotPlace, counted from 0.                                *)
(***************************************************************************)
\* the rows that are not doNotPlace, in order
Placed(rows) == SelectSeq(rows, LAMBDA r : ~r.DNP)

\* the report of the last validation holds an error / a warning of the type
\* for the row
HasError(type, row) ==
    \E i \in 1..Len(last.report.Errors) :
        last.report.Errors[i] = Finding(type, row)

HasWarning(type, row) ==
    \E i \in 1..Len(last.report.Warnings) :
        last.report.Warnings[i] = Finding(type, row)

\* the XFile is a freshly imported board whose first feeder was given the
\* id 150 together with the placements on it, and nothing else was changed
OnlyID150 ==
    \E rows \in BoardFiles :
        LET m0 == ConvertPOSToXFile(rows, "board.pos")
        IN  /\ Len(rows) = 1
            /\ xf = [m0 EXCEPT !.Stations[1].ID = 150,
                               !.Components[1].STNo = 150]

\* C21: an active feeder gets a reserved-id error, and the result is
\* invalid, exactly when its id is 100 or more; with an id in 30..35 or
\* 65..70 it gets the undefined-id warning and no error about its id range;
\* an XFile whose only fault is one feeder of id 150 has exactly one error,
\* the reserved-id error.
C21_ReservedID ==
    last.op = "ValidateDPV" =>
        /\ \A k \in 1..Len(Placed(xf.Stations)) :
              LET id == Placed(xf.Stations)[k].ID
              IN  /\ HasError("reserved_station_id", k - 1) <=> id >= 100
                  /\ id >= 100 => ~last.report.Valid
                  /\ id \in (30..35) \cup (65..70) =>
                        /\ HasWarning("undefined_station_id", k - 1)
                        /\ ~HasError("undefined_station_id", k - 1)
                        /\ ~HasError("reserved_station_id", k - 1)
                  /\ id \notin (30..35) \cup (65..70) =>
                        ~HasWarning("undefined_station_id", k - 1)
        /\ (OnlyID150 /\ HasDPVSuffix(last.filename)) =>
              /\ last.report.Errors = <<Finding("reserved_station_id", 0)>>
              /\ ~last.report.Valid

\* the XFile whose only fault is the feeder id 150 was validated
C21_Witness ==
    /\ last.op = "ValidateDPV"
    /\ OnlyID150
    /\ HasDPVSuffix(last.filename)
    /\ ~last.report.Valid

\* a feeder with an id of the undefined ranges was validated and the result
\* is valid
C21_WitnessWarned ==
    /\ last.op = "ValidateDPV"
    /\ last.report.Valid
    /\ \E k \in 1..Len(Placed(xf.Stations)) :
          Placed(xf.Stations)[k].ID \in {30, 70}

\* C22 as stated: a feeder or a placement that is not doNotPlace gets the
\* speed error exactly when its speed is in 1..49.
C22_SpeedError1To49 ==
    last.op = "ValidateDPV" =>
        /\ \A k \in 1..Len(Placed(xf.Stations)) :
              HasError("invalid_station_speed", k - 1)
                 <=> Placed(xf.Stations)[k].Speed \in 1..49
        /\ \A k \in 1..Len(Placed(xf.Components)) :
              HasError("invalid_component_speed", k - 1)
                 <=> Placed(xf.Components)[k].Speed \in 1..49

\* C22 amended: a feeder or a placement that is not doNotPlace gets the
\* speed error, and the result is invalid, exactly when its speed is not 0
\* and below 50, negative speeds included; a speed of 0 or of 50 and more
\* gets no speed finding, neither error nor warning.
C22_SpeedErrorBelow50 ==
    last.op = "ValidateDPV" =>
        /\ \A k \in 1..Len(Placed(xf.Stations)) :
              LET v == Placed(xf.Stations)[k].Speed
              IN  /\ HasError("invalid_station_speed", k - 1)
                        <=> (v # 0 /\ v < 50)
                  /\ (v # 0 /\ v < 50) => ~last.report.Valid
                  /\ ~HasWarning("invalid_station_speed", k - 1)
        /\ \A k \in 1..Len(Placed(xf.Components)) :
              LET v == Placed(xf.Components)[k].Speed
              IN  /\ HasError("invalid_component_speed", k - 1)
                        <=> (v # 0 /\ v < 50)
                  /\ (v # 0 /\ v < 50) => ~last.report.Valid
                  /\ ~HasWarning("invalid_component_speed", k - 1)

\* a feeder with a negative speed and a placement with the speed 49 were
\* validated
C22_Witness ==
    /\ last.op = "ValidateDPV"
    /\ \E k \in 1..Len(Placed(xf.Stations)) : Placed(xf.Stations)[k].Speed < 0
    /\ \E k \in 1..Len(Placed(xf.Components)) :
          Placed(xf.Components)[k].Speed = 49

\* a feeder with the speed 50 was validated and the result is valid
C22_WitnessAccepted ==
    /\ last.op = "ValidateDPV"
    /\ last.report.Valid
    /\ \E k \in 1..Len(Placed(xf.Stations)) : Placed(xf.Stations)[k].Speed = 50

\* C23: the single-component warning is given exactly when one placement is
\* not doNotPlace, it is never an error, and GenerateDPV returns the text
\* of an XFile with one such placement whenever validation has no error.
C23_SingleComponentWarns ==
    /\ last.op = "ValidateDPV" =>
          /\ HasWarning("single_component", 0)
                <=> Len(Placed(xf.Components)) = 1
          /\ \A i \in 1..Len(last.report.Errors) :
                last.report.Errors[i].Type # "single_component"
          /\ last.report.Errors = <<>> => last.report.Valid
    /\ (last.op = "GenerateDPV" /\ Len(Placed(xf.Components)) = 1
          /\ ValidateDPV(xf, last.filename).Errors = <<>>) =>
          /\ ~last.out.err
          /\ last.out.text # <<>>

\* an XFile with two placements, one of them doNotPlace, was generated
C23_Witness ==
    /\ last.op = "GenerateDPV"
    /\ Len(xf.Components) = 2
    /\ Len(Placed(xf.Components)) = 1
    /\ ~last.out.err

\* an XFile with one placement that is not doNotPlace was validated and got
\* the warning
C23_WitnessWarned ==
    /\ last.op = "ValidateDPV"
    /\ Len(xf.Components) = 2
    /\ Len(Placed(xf.Components)) = 1
    /\ HasWarning("single_component", 0)
    /\ last.report.Valid

(***************************************************************************)
(* Properties of the merge: the list of merged files and the feeder ids    *)
(***************************************************************************)
\* no two entries of the sequence are equal
NoneTwice(s) == \A i, j \in 1..Len(s) : s[i] = s[j] => i = j

\* C24: the list of merged file names never holds a name twice;
\* MergeStationsIntoXFile appends its file name when the name is not empty
\* and not in the list, and leaves the list alone otherwise; MergeStacksFile
\* leaves the list alone.
C24_FileNamesOnce ==
    [][/\ NoneTwice(xf'.StackFiles)
       /\ last'.op = "MergeStacks" => xf'.StackFiles = xf.StackFiles
       /\ last'.op = "UploadStack" =>
             xf'.StackFiles =
                IF last'.filename = "" \/ last'.filename \in Range(xf.StackFiles)
                THEN xf.StackFiles
                ELSE Append(xf.StackFiles, last'.filename)]_vars

\* a file was merged under a name that was in the list already
C24_Witness ==
    /\ last.op = "UploadStack"
    /\ last.known
    /\ last.filename # ""
    /\ xf.StackFiles = <<last.filename>>

IDsOf(stations) == [j \in 1..Len(stations) |-> stations[j].ID]

\* C26: a merge of either variant removes no feeder, changes the id of no
\* feeder, and leaves the ids pairwise distinct if they were.
C26_IDsStayDistinct ==
    [][last'.op \in MergeOps
       => /\ Len(xf'.Stations) >= Len(xf.Stations)
          /\ SubSeq(IDsOf(xf'.Stations), 1, Len(xf.Stations)) = IDsOf(xf.Stations)
          /\ NoneTwice(IDsOf(xf.Stations)) => NoneTwice(IDsOf(xf'.Stations))]_vars

\* a merge has updated a feeder and appended another, and the ids are
\* pairwise distinct
C26_Witness ==
    /\ last.op \in MergeOps
    /\ last.merged >= 1
    /\ Len(xf.Stations) > last.merged
    /\ Len(xf.Stations) >= 3
    /\ NoneTwice(IDsOf(xf.Stations))

\* C28: when every feeder id is in 1..99 before a merge, the feeders the
\* merge appends get ids below 100, and validation reports no reserved id
\* after it.
C28_FreshIDBelow100 ==
    [][(/\ last'.op \in MergeOps
        /\ \A j \in 1..Len(xf.Stations) : xf.Stations[j].ID \in 1..99)
       => /\ \A j \in (Len(xf.Stations) + 1)..Len(xf'.Stations) :
                xf'.Stations[j].ID < 100
          /\ \A i \in 1..Len(ValidateDPV(xf', "out.dpv").Errors) :
                ValidateDPV(xf', "out.dpv").Errors[i].Type
                   # "reserved_station_id"]_vars

\* C27: an XFile imported from rows that all carry a value label, after any
\* number of merges of either variant and no edit, has no orphan placement
\* and no duplicate feeder id for ValidateDPV.
C27_ImportedStaysSound ==
    xf.OriginalPOS # "" =>
        \A i \in 1..Len(ValidateDPV(xf, "out.dpv").Errors) :
            ValidateDPV(xf, "out.dpv").Errors[i].Type
               \notin {"orphan_component", "duplicate_station_id"}

\* an imported XFile with two placements after a merge that updated the
\* feeder of one of them and appended a feeder
C27_Witness ==
    /\ xf.OriginalPOS # ""
    /\ last.op \in MergeOps
    /\ last.merged >= 1
    /\ Len(xf.Components) = 2
    /\ Len(xf.Stations) >= 3

(***************************************************************************)
(* Failures of the store (filestore.go, UpdateSession and CreateSession)   *)
(***************************************************************************)
\* client c calls UpdateSession in this step and gets an error
UpdateFailed(c) ==
    /\ \/ req[c].pc = "handler" /\ req[c].kind \in {"UploadPOS", "UpdateXFile"}
       \/ req[c].pc = "update"
    /\ req'[c].pc = "respond"
    /\ ~req'[c].ok

\* the middleware of client c calls CreateSession in this step and gets an
\* error
CreateFailed(c) ==
    /\ req[c].pc \in {"idle", "create"}
    /\ req'[c].pc = "respond"

\* C29: when UpdateSession returns an error, the session's model in memory
\* is the one it held before the call (and an unknown session stays
\* unknown); when CreateSession returns an error, the store holds the same
\* sessions as before and the user counter is not incremented.
C29_AtomicOnFailure ==
    [][\A c \in Clients :
          /\ UpdateFailed(c) =>
                IF req[c].sid \in DOMAIN sessions
                THEN /\ req[c].sid \in DOMAIN sessions'
                     /\ heap'[sessions'[req[c].sid].XFile]
                           = heap[sessions[req[c].sid].XFile]
                ELSE req[c].sid \notin DOMAIN sessions'
          /\ CreateFailed(c) =>
                /\ DOMAIN sessions' = DOMAIN sessions
                /\ stats' = stats]_vars

\* the half of C29 about CreateSession
CreateSessionAtomic ==
    [][\A c \in Clients :
          CreateFailed(c) => /\ DOMAIN sessions' = DOMAIN sessions
                             /\ stats' = stats]_vars

(***************************************************************************)
(* Expiry of the sessions (filestore.go, Cleanup and TouchSession;         *)
(* session.go, SessionMiddleware)                                          *)
(***************************************************************************)
\* the step is a call of Cleanup
CleanupStep == last'.op = "Cleanup" /\ req' = req /\ now' = now

\* client c calls UpdateSession in this step
UpdateCalled(c) ==
    /\ \/ req[c].pc = "handler" /\ req[c].kind \in {"UploadPOS", "UpdateXFile"}
       \/ req[c].pc = "update"
    /\ req'[c].pc = "respond"

C25_WitnessKept ==
    /\ last.op = "Cleanup"
    /\ \E id \in DOMAIN sessions :
          /\ now - sessions[id].CreatedAt > maxAge
          /\ now - sessions[id].UpdatedAt = maxAge

(***************************************************************************)
(* The session of a request (session.go, SessionMiddleware, and the        *)
(* handlers' GetSession)                                                   *)
(***************************************************************************)
\* C30: a request without a known cookie reaches its handler with a session
\* created for it, and the GetSession of a handler finds the session of the
\* id the middleware gave it.
C30_HandlerFindsSession ==
    [][\A c \in Clients :
          /\ (req[c].pc = "create" /\ req'[c].pc = "handler")
             => req'[c].sid \in DOMAIN sessions' \ DOMAIN sessions
          /\ (/\ req[c].pc = "handler"
              /\ req[c].kind \in {"UploadStack", "GetXFile"}
              /\ req'[c].pc # "handler")
             => /\ req[c].sid \in DOMAIN sessions
                /\ req'[c].pc # "respond"]_vars

\* the half of C30 about requests without a known cookie
NewSessionReachesHandler ==
    [][\A c \in Clients :
          (req[c].pc = "create" /\ req'[c].pc = "handler")
          => /\ req'[c].sid \in DOMAIN sessions' \ DOMAIN sessions
             /\ heap'[sessions'[req'[c].sid].XFile] = NewXFile]_vars

=========================================================================
